---- MODULE Spec2Model ----
(***************************************************************************)
(* A model of ChargePi/chargeflow: the OCPP-J frame decoder (ParserV2),    *)
(* the parse / validation result objects, the schema registries and the    *)
(* result aggregator.                                                      *)
(***************************************************************************)
EXTENDS Integers, Sequences, FiniteSets, TLC

\* ------------------------------------------------------------------------
\* Bounds of the model
\* ------------------------------------------------------------------------
\* number of lines one ParserV2 decodes over its lifetime (all Parse calls)
MaxLines == 3
\* number of AddError calls made on one result object
MaxErrors == 3
\* number of goroutines calling into one registry
NumCallers == 2
\* number of Add* calls made on one Aggregator
MaxAdds == 3
\* number of GetStatistics calls made on one Aggregator
MaxStatisticsCalls == 2
\* number of Reset calls made on one Aggregator
MaxResets == 1

\* the width of an int, in bits
IntBits == 4
\* number of validation runs made on one Service
MaxRuns == 2
\* number of lines handed to one validation run
MaxServiceLines == 2
\* number of elements of a message after the type id and the unique id
MaxElements == 3

VARIABLES
    results,        \* ParserV2.results: unique id -> RequestResponseResult
    nonParsable,    \* ParserV2.nonParsable: key -> Result
    responseType,   \* viper "response-type" (global configuration)
    data,           \* the lines of the current Parse call processed so far
    pc,             \* "idle": no Parse call in progress, "loop": inside the for loop
    total,          \* lines decoded by this parser in all Parse calls so far
    wrote,          \* which maps the last processed line assigned to
    parseErr        \* error returned by the last Parse call ("none" before any return)

parserVars == <<results, nonParsable, responseType, data, pc, total, wrote, parseErr>>

VARIABLES
    parserResult,       \* a parser.Result under a sequence of AddError calls
    validationResult,   \* a validator.ValidationResult under AddError calls
    addedToParser,      \* the strings passed to parserResult.AddError, in call order
    addedToValidation   \* the strings passed to validationResult.AddError

resultVars == <<parserResult, validationResult, addedToParser, addedToValidation>>

VARIABLES
    registryType,           \* which registry implementation is in use
    overwriteConfig,        \* FileSchemaRegistry.config.overwrite
    schemasPerOcppVersion,  \* version -> action -> compiled schema
    lastCall,               \* the last registry call: arguments, outcome, map before it
    registered              \* the (version, action) pairs of the successful RegisterSchema calls

registryVars == <<registryType, overwriteConfig, schemasPerOcppVersion, lastCall, registered>>

VARIABLES
    mu,         \* the sync.RWMutex: holders of the read lock, holder of the write lock
    callerPc,   \* per goroutine, where it is inside RegisterSchema / GetSchema
    callerArgs, \* per goroutine, the arguments of its call
    callerRet   \* per goroutine, what its last call returned

callerVars == <<mu, callerPc, callerArgs, callerRet>>

VARIABLES
    stringListMaps,         \* the allocated map[string][]string objects, by reference
    aggregatorResults,      \* Aggregator.results: message id -> "request"/"response" -> Results
    nonParsableMessages,    \* Aggregator.nonParsableMessages: a reference to a map
    reportGenerated,        \* Aggregator.reportGenerated
    stats,                  \* Aggregator.stats
    report,                 \* Aggregator.report
    returnedReport,         \* the Report value the last CreateReport returned
    returnedStatistics,     \* the Statistics value the last GetStatistics returned
    firstReport,            \* contents of the first report returned since construction / Reset
    adds,                   \* Add* calls made
    statisticsCalls,        \* GetStatistics calls made
    resets                  \* Reset calls made

aggregatorVars ==
    <<stringListMaps, aggregatorResults, nonParsableMessages, reportGenerated, stats,
      report, returnedReport, returnedStatistics, firstReport, adds, statisticsCalls, resets>>

VARIABLES
    validatorCall,          \* the last ValidateMessage call: version and message
    validatorReturn         \* what it returned, and the GetSchema calls it made

validatorVars == <<validatorCall, validatorReturn>>

VARIABLES
    statistics,         \* a report.Statistics value, the receiver of the calls
    statisticsMethod,   \* the method of Statistics called last
    statisticsResult    \* what that method returned

statisticsVars == <<statistics, statisticsMethod, statisticsResult>>

VARIABLES
    serviceCall,    \* the last validation run on the Service: version, lines, orders
    serviceErr,     \* the error it returned
    serviceRuns     \* the number of validation runs made on the Service

serviceVars == <<serviceCall, serviceErr, serviceRuns>>

VARIABLES
    parsedLine,     \* the argument of the last Parser.ParseMessage call
    parsedReturn    \* what the call returned, or that it panicked

messageParserVars == <<parsedLine, parsedReturn>>

vars == <<parserVars, resultVars, registryVars, callerVars, aggregatorVars, validatorVars,
          statisticsVars, serviceVars, messageParserVars>>

\* ------------------------------------------------------------------------
\* JSON values as decoded by encoding/json into interface{}
\* ------------------------------------------------------------------------
\* a JSON number (float64), held in tenths so that fractions exist
JNum(tenths) == [t |-> "num", n |-> tenths, s |-> ""]
JStr(x) == [t |-> "str", n |-> 0, s |-> x]
\* a JSON object; s names its contents
JObj(x) == [t |-> "obj", n |-> 0, s |-> x]
\* JSON null decodes to the nil interface
JNull == [t |-> "null", n |-> 0, s |-> ""]

\* fmt's %d of an int
FmtInt(i) == IF i < 0 THEN "-" \o ToString(0 - i) ELSE ToString(i)

\* fmt's %v of a decoded JSON value
FmtValue(j) ==
    CASE j.t = "num" ->
            IF j.n % 10 = 0 THEN FmtInt(j.n \div 10)
            ELSE FmtInt(j.n \div 10) \o "." \o ToString(j.n % 10)
      [] j.t = "str" -> j.s
      [] j.t = "obj" -> "map[" \o j.s \o "]"
      [] OTHER -> "<nil>"

\* ------------------------------------------------------------------------
\* pkg/ocpp: message types and messages
\* ------------------------------------------------------------------------
CALL == 2
CALL_RESULT == 3
CALL_ERROR == 4
\* the two type ids validator.go switches on besides these
CALL_RESULT_ERROR == 5
SEND == 6

\* ocpp.MessageType(rawTypeId): float64 -> int conversion truncates toward zero
MessageType(tenths) == IF tenths >= 0 THEN tenths \div 10 ELSE 0 - ((0 - tenths) \div 10)

\* a nil ocpp.Message; dynamicType is the Go type behind the interface value
NoMessage ==
    [dynamicType |-> "nil", typeId |-> 0, uniqueId |-> "", action |-> "",
     payload |-> JNull, errorCode |-> "", errorDescription |-> "",
     errorDetails |-> JNull]

Call(uniqueId, action, payload) ==
    [NoMessage EXCEPT !.dynamicType = "Call", !.typeId = CALL, !.uniqueId = uniqueId,
                      !.action = action, !.payload = payload]

CallResult(uniqueId, action, payload) ==
    [NoMessage EXCEPT !.dynamicType = "CallResult",
                      !.typeId = CALL_RESULT, !.uniqueId = uniqueId,
                      !.action = action, !.payload = payload]

CallError(uniqueId, errorCode, errorDescription, errorDetails) ==
    [NoMessage EXCEPT !.dynamicType = "CallError",
                      !.typeId = CALL_ERROR, !.uniqueId = uniqueId,
                      !.errorCode = errorCode,
                      !.errorDescription = errorDescription,
                      !.errorDetails = errorDetails]

\* the message a well-formed [6, id, action, payload] line stands for
Send(uniqueId, action, payload) ==
    [NoMessage EXCEPT !.dynamicType = "Send", !.typeId = SEND, !.uniqueId = uniqueId,
                      !.action = action, !.payload = payload]

\* the message a well-formed [5, id, code, description, details] line stands for
CallResultError(uniqueId, errorCode, errorDescription, errorDetails) ==
    [NoMessage EXCEPT !.dynamicType = "CallResultError",
                      !.typeId = CALL_RESULT_ERROR, !.uniqueId = uniqueId,
                      !.errorCode = errorCode,
                      !.errorDescription = errorDescription,
                      !.errorDetails = errorDetails]

\* Message.GetAction: the action of a Call / CallResult, the error code of a
\* CallError
GetAction(m) ==
    IF m.dynamicType \in {"CallError", "CallResultError"} THEN m.errorCode ELSE m.action

\* Message.GetPayload: the payload of a Call / CallResult, the error details
\* of a CallError
GetPayload(m) ==
    IF m.dynamicType \in {"CallError", "CallResultError"} THEN m.errorDetails ELSE m.payload

GetUniqueId(m) == m.uniqueId

GetMessageTypeId(m) == m.typeId

\* the codes IsErrorCodeValid accepts
ErrorCodes ==
    {"NotImplemented", "NotSupported", "InternalError", "MessageTypeNotSupported",
     "ProtocolError", "SecurityError", "FormationViolation", "FormatViolation",
     "PropertyConstraintViolation", "OccurenceConstraintViolation",
     "OccurrenceConstraintViolation", "TypeConstraintViolation", "GenericError"}

\* a check that takes every non-empty code
IsErrorCodeValidNonEmpty(code) == code # ""

IsErrorCodeValid(code) == code \in ErrorCodes

\* ------------------------------------------------------------------------
\* pkg/parser: Result and RequestResponseResult
\* ------------------------------------------------------------------------
NewResult == [message |-> NoMessage, isValid |-> TRUE, errors |-> <<>>]

\* the Go zero value Result{}
ZeroResult == [message |-> NoMessage, isValid |-> FALSE, errors |-> <<>>]

AddError(v, err) == [v EXCEPT !.isValid = FALSE, !.errors = Append(@, err)]

IsValid(v) == v.isValid

Errors(v) == v.errors

SetMessage(v, message) == [v EXCEPT !.message = message]

AddRequestError(r, err) == [r EXCEPT !.Request = AddError(@, err)]

AddResponseError(r, err) == [r EXCEPT !.Response = AddError(@, err)]

AddRequest(r, request) == [r EXCEPT !.Request = SetMessage(@, request)]

AddResponse(r, response) == [r EXCEPT !.Response = SetMessage(@, response)]

\* (message, found) of the request slot
GetRequest(r) == [message |-> r.Request.message, found |-> r.Request.message # NoMessage]

GetResponse(r) == [message |-> r.Response.message, found |-> r.Response.message # NoMessage]

\* ------------------------------------------------------------------------
\* Go maps as functions; m[k] = v
\* ------------------------------------------------------------------------
MapPut(m, k, v) == [x \in (DOMAIN m) \cup {k} |-> IF x = k THEN v ELSE m[x]]

EmptyMap == [x \in {} |-> 0]

\* ------------------------------------------------------------------------
\* pkg/parser: ParserV2
\* ------------------------------------------------------------------------
\* fmt.Sprintf("line %d", index)
LineKey(index) == "line " \o FmtInt(index)

\* ParseJsonMessage: json.Unmarshal of the line into []interface{}.
\* A raw line is one of: text that is not JSON, a JSON value that is not an
\* array (object, string, number), the JSON literal null (which unmarshals
\* into a nil slice without error), or a JSON array.
ParseJsonMessage(line) ==
    CASE line.kind = "array" -> [arr |-> line.arr, err |-> FALSE]
      [] line.kind = "null" -> [arr |-> <<>>, err |-> FALSE]
      [] OTHER -> [arr |-> <<>>, err |-> TRUE]

\* fp.results[k] = v and fp.nonParsable[k] = v, remembering the assignment
PutResults(fp, k, v) == [fp EXCEPT !.results = MapPut(@, k, v), !.wroteResults = TRUE]

PutNonParsable(fp, k, v) == [fp EXCEPT !.nonParsable = MapPut(@, k, v), !.wroteNonParsable = TRUE]

\* case ocpp.CALL of ParserV2.parse
parseCall(fp, uniqueId, result, arr) ==
    LET fp1 == IF uniqueId \notin DOMAIN fp.results
               THEN PutResults(fp, uniqueId,
                        [Request |-> result, Response |-> NewResult,
                         ResponseError |-> ZeroResult])
               ELSE fp
        local == fp1.results[uniqueId]
    IN  IF Len(arr) # 4
        THEN \* the error goes to the local copy, which is dropped at break
             LET dropped == AddRequestError(local,
                     "Expected 4 elements in the message, got " \o FmtInt(Len(arr)))
             IN  fp1
        ELSE IF arr[3].t # "str"
        THEN LET dropped == AddRequestError(local,
                     "Expected third element to be a string (action)")
             IN  fp1
        ELSE PutResults(fp1, uniqueId,
                 AddRequest(local, Call(uniqueId, arr[3].s, arr[4])))

\* a CALL_RESULT case that takes the action from the configuration only
parseCallResultNoInherit(fp, uniqueId, result, arr, configured) ==
    LET fp1 == IF uniqueId \notin DOMAIN fp.results
               THEN PutResults(fp, uniqueId,
                        [Request |-> NewResult, Response |-> result,
                         ResponseError |-> ZeroResult])
               ELSE fp
        local == fp1.results[uniqueId]
    IN  IF configured = ""
        THEN fp1
        ELSE PutResults(fp1, uniqueId,
                 AddResponse(local, CallResult(uniqueId, configured, arr[3])))

\* case ocpp.CALL_RESULT of ParserV2.parse
parseCallResult(fp, uniqueId, result, arr, configured) ==
    LET fp1 == IF uniqueId \notin DOMAIN fp.results
               THEN PutResults(fp, uniqueId,
                        [Request |-> NewResult, Response |-> result,
                         ResponseError |-> ZeroResult])
               ELSE fp
        local == fp1.results[uniqueId]
        exist == uniqueId \in DOMAIN fp1.results
        req == GetRequest(local)
        action == IF req.found THEN GetAction(req.message) ELSE configured
    IN  IF (~exist) /\ configured = ""
        THEN fp1
        ELSE IF action = ""
        THEN fp1
        ELSE PutResults(fp1, uniqueId,
                 AddResponse(local, CallResult(uniqueId, action, arr[3])))

\* case ocpp.CALL_ERROR of ParserV2.parse
parseCallError(fp, uniqueId, result, arr) ==
    LET fp1 == IF uniqueId \notin DOMAIN fp.results
               THEN PutResults(fp, uniqueId,
                        [Request |-> NewResult, Response |-> result,
                         ResponseError |-> ZeroResult])
               ELSE fp
        local == fp1.results[uniqueId]
    IN  IF Len(arr) < 4
        THEN LET dropped == AddResponseError(local,
                     "Invalid Call Error message. Expected array length >= 4, got "
                        \o FmtInt(Len(arr)))
             IN  fp1
        ELSE LET details == IF Len(arr) > 4 THEN arr[5] ELSE JNull
                 ok == arr[3].t = "str"
                 local1 == IF ok THEN local
                           ELSE AddResponseError(local,
                                    "Invalid element " \o FmtValue(arr[3])
                                        \o " at 2, expected error code (string)")
                 errorCode == IF ok THEN arr[3].s ELSE ""
                 errorDescription == IF arr[4].t = "str" THEN arr[4].s ELSE ""
             IN  PutResults(fp1, uniqueId,
                     AddResponse(local1,
                         CallError(uniqueId, errorCode, errorDescription, details)))

\* a default case that files the line as an exchange with a failed request
parseUnknownAsExchange(fp, uniqueId, result, typeId) ==
    PutResults(fp, uniqueId,
        [Request |-> AddError(result, "Unknown message type: " \o FmtInt(typeId)),
         Response |-> NewResult, ResponseError |-> ZeroResult])

\* the default case of ParserV2.parse
parseUnknown(fp, uniqueId, result, typeId) ==
    PutNonParsable(fp, uniqueId,
        AddError(result, "Unknown message type: " \o FmtInt(typeId)))

\* ParserV2.parse(index, arr)
parse(fp, index, arr, configured) ==
    LET line == LineKey(index)
    IN  IF Len(arr) < 3
        THEN PutNonParsable(fp, line, AddError(NewResult,
                 "Expected at least 3 elements in the message, got " \o FmtInt(Len(arr))))
        ELSE IF arr[1].t # "num"
        THEN PutNonParsable(fp, line, AddError(NewResult,
                 "Expected first element to be a number (message type ID)"))
        ELSE IF arr[2].t # "str"
        THEN PutNonParsable(fp, line, AddError(NewResult,
                 "Expected second element to be a string (unique ID)"))
        ELSE LET typeId == MessageType(arr[1].n)
                 missing == arr[2].s = ""
                 result == IF missing
                           THEN AddError(NewResult, "Unique ID is missing in the message")
                           ELSE NewResult
                 uniqueId == IF missing THEN line ELSE arr[2].s
             IN  CASE typeId = CALL -> parseCall(fp, uniqueId, result, arr)
                   [] typeId = CALL_RESULT ->
                        parseCallResult(fp, uniqueId, result, arr, configured)
                   [] typeId = CALL_ERROR -> parseCallError(fp, uniqueId, result, arr)
                   [] OTHER -> parseUnknown(fp, uniqueId, result, typeId)

\* a loop that files a bad line under its 0-based index
badLineKeyZeroBased(i) == LineKey(i)

\* the key under which the loop of Parse files a line that is not a JSON array;
\* i is the 0-based loop index
badLineKey(i) == LineKey(i + 1)

\* one iteration of the for loop of ParserV2.Parse; i is the 0-based loop index
ParseIteration(fp, i, message, configured) ==
    LET parsed == ParseJsonMessage(message)
    IN  IF parsed.err
        THEN PutNonParsable(fp, badLineKey(i),
                 AddError(NewResult, "Message is not a valid OCPP message"))
        ELSE parse(fp, i + 1, parsed.arr, configured)

\* NewParserV2: both maps empty
NewParserV2 ==
    [results |-> EmptyMap, nonParsable |-> EmptyMap,
     wroteResults |-> FALSE, wroteNonParsable |-> FALSE]

\* ParserV2.Parse: the loop over data[from..], 1-based positions
RECURSIVE Parse(_, _, _, _)
Parse(fp, from, lines, configured) ==
    IF from > Len(lines) THEN fp
    ELSE Parse(ParseIteration(fp, from - 1, lines[from], configured),
               from + 1, lines, configured)

\* ------------------------------------------------------------------------
\* pkg/validator: ValidationResult
\* ------------------------------------------------------------------------
NewValidationResult == [isValid |-> TRUE, errors |-> <<>>]

\* a ValidationResult.AddError that keeps an error string only once
ValidationAddErrorOnce(v, err) ==
    [v EXCEPT !.isValid = FALSE,
              !.errors = IF \E i \in 1..Len(@) : @[i] = err THEN @ ELSE Append(@, err)]

ValidationAddError(v, err) == [v EXCEPT !.isValid = FALSE, !.errors = Append(@, err)]

ValidationIsValid(v) == v.isValid

ValidationErrors(v) == v.errors

\* ------------------------------------------------------------------------
\* pkg/ocpp: protocol versions
\* ------------------------------------------------------------------------
V15 == "1.5"
V16 == "1.6"
V20 == "2.0"
V21 == "2.1"

IsValidProtocolVersion(version) == version \in {V15, V16, V20, V21}

\* ------------------------------------------------------------------------
\* pkg/schema_registry: the map-backed registries
\* ------------------------------------------------------------------------
RequestSuffix == "Request"
ResponseSuffix == "Response"

\* strings.HasSuffix
HasSuffix(str, suffix) ==
    /\ Len(str) >= Len(suffix)
    /\ SubSeq(str, Len(str) - Len(suffix) + 1, Len(str)) = suffix

\* a nil *jsonschema.Schema
NilSchema == [compiledFrom |-> ""]

\* compiler.Compile(rawSchema): the compiled schema of a schema document, or
\* an error for bytes that are not one
Compile(rawSchema) ==
    IF rawSchema = "{bad"
    THEN [schema |-> NilSchema, err |-> TRUE]
    ELSE [schema |-> [compiledFrom |-> rawSchema], err |-> FALSE]

\* the overwrite setting a RegisterSchema call runs under: the per-call
\* option of InMemorySchemaRegistry and SchemaRegistry, the constructor
\* option of FileSchemaRegistry
Overwrite(type, config, option) == IF type = "File" THEN config ELSE option

\* if the version has no bucket yet, make(map[string]*jsonschema.Schema)
ensureBucket(reg, version) ==
    IF version \notin DOMAIN reg THEN MapPut(reg, version, EmptyMap) ELSE reg

\* a store that keeps the schema an action already has
storeSchemaKeepExisting(reg, version, action, schema) ==
    IF action \in DOMAIN reg[version]
    THEN reg
    ELSE MapPut(reg, version, MapPut(reg[version], action, schema))

\* schemasPerOcppVersion[ocppVersion][action] = schema
storeSchema(reg, version, action, schema) ==
    MapPut(reg, version, MapPut(reg[version], action, schema))

\* a RegisterSchema that stores the schema before it looks for an existing one
RegisterSchemaStoreFirst(reg, overwrite, version, action, rawSchema) ==
    IF ~IsValidProtocolVersion(version)
    THEN [reg |-> reg, err |-> "invalid OCPP version"]
    ELSE IF ~(HasSuffix(action, RequestSuffix) \/ HasSuffix(action, ResponseSuffix))
    THEN [reg |-> reg, err |-> "action must end with 'Request' or 'Response'"]
    ELSE IF Compile(rawSchema).err
    THEN [reg |-> reg, err |-> "failed to compile schema"]
    ELSE LET reg1 == ensureBucket(reg, version)
         IN  IF (~overwrite) /\ action \in DOMAIN reg1[version]
             THEN [reg |-> storeSchema(reg1, version, action, Compile(rawSchema).schema),
                   err |-> "schema already exists"]
             ELSE [reg |-> storeSchema(reg1, version, action, Compile(rawSchema).schema),
                   err |-> "nil"]

\* RegisterSchema, run alone: the map after the call and the returned error
RegisterSchema(reg, overwrite, version, action, rawSchema) ==
    IF ~IsValidProtocolVersion(version)
    THEN [reg |-> reg, err |-> "invalid OCPP version"]
    ELSE IF ~(HasSuffix(action, RequestSuffix) \/ HasSuffix(action, ResponseSuffix))
    THEN [reg |-> reg, err |-> "action must end with 'Request' or 'Response'"]
    ELSE IF Compile(rawSchema).err
    THEN [reg |-> reg, err |-> "failed to compile schema"]
    ELSE LET reg1 == ensureBucket(reg, version)
         IN  IF (~overwrite) /\ action \in DOMAIN reg1[version]
             THEN [reg |-> reg1, err |-> "schema already exists"]
             ELSE [reg |-> storeSchema(reg1, version, action, Compile(rawSchema).schema),
                   err |-> "nil"]

\* a GetSchema that looks for the action under every version
GetSchemaAnyVersion(reg, version, action) ==
    IF \E v \in DOMAIN reg : action \in DOMAIN reg[v]
    THEN [schema |-> reg[CHOOSE v \in DOMAIN reg : action \in DOMAIN reg[v]][action],
          found |-> TRUE]
    ELSE [schema |-> NilSchema, found |-> FALSE]

\* GetSchema: (schema, found)
GetSchema(reg, version, action) ==
    IF version \in DOMAIN reg /\ action \in DOMAIN reg[version]
    THEN [schema |-> reg[version][action], found |-> TRUE]
    ELSE [schema |-> NilSchema, found |-> FALSE]

\* ------------------------------------------------------------------------
\* pkg/validator: Validator
\* ------------------------------------------------------------------------
payloadEmptyErr == "payload is empty"
actionEmptyErr == "action is empty"
uniqueIdEmptyErr == "unique id is empty"

ErrCannotCastToCallError == "cannot cast message to CallError"

\* schema.Validate(payload): the evaluation errors of the payload, in one
\* order; the contents of a payload object name the violations it has
EvaluationErrors(schema, payload) ==
    CASE payload.s = "bad1" -> <<"required: missing properties">>
      [] payload.s = "bad2" -> <<"required: missing properties", "type: not a string">>
      [] OTHER -> <<>>

\* the order in which range yields the entries of the evaluation error map
RangeOrder(errs, flip) ==
    IF flip THEN [i \in 1..Len(errs) |-> errs[Len(errs) + 1 - i]] ELSE errs

\* a loop that stops after the first evaluation error
addFirstError(v, errs) ==
    IF errs = <<>> THEN v ELSE ValidationAddError(v, Head(errs))

RECURSIVE addErrors(_, _)
\* validationResults.AddError for every evaluation error
addErrors(v, errs) ==
    IF errs = <<>> THEN v ELSE addErrors(ValidationAddError(v, Head(errs)), Tail(errs))

\* what a ValidateMessage call has come to: the result so far, the returned
\* error and the GetSchema calls made
Outcome(result, err, calls) == [result |-> result, err |-> err, calls |-> calls]

\* a validatePayload that looks the schema up before it looks at the payload
validatePayloadLookupFirst(reg, ocppVersion, payload, action, result, flip) ==
    LET g == GetSchema(reg, ocppVersion, action)
        calls == <<[version |-> ocppVersion, action |-> action]>>
    IN  IF ~g.found
        THEN Outcome(result,
                 "no schema found for action " \o action
                    \o " in OCPP version " \o ocppVersion, calls)
        ELSE IF payload = JNull
        THEN Outcome(ValidationAddError(result, payloadEmptyErr), "nil", calls)
        ELSE Outcome(addErrors(result,
                        RangeOrder(EvaluationErrors(g.schema, payload), flip)),
                     "nil", calls)

\* Validator.validatePayload
validatePayload(reg, ocppVersion, payload, action, result, flip) ==
    IF payload = JNull
    THEN Outcome(ValidationAddError(result, payloadEmptyErr), "nil", <<>>)
    ELSE LET g == GetSchema(reg, ocppVersion, action)
             calls == <<[version |-> ocppVersion, action |-> action]>>
         IN  IF ~g.found
             THEN Outcome(result,
                      "no schema found for action " \o action
                         \o " in OCPP version " \o ocppVersion, calls)
             ELSE Outcome(addErrors(result,
                             RangeOrder(EvaluationErrors(g.schema, payload), flip)),
                          "nil", calls)

\* errors.Wrap(err, "unable to validate message payload") around a non-nil
\* error of validatePayload
wrapPayloadError(o) ==
    IF o.err = "nil" THEN o
    ELSE [o EXCEPT !.err = "unable to validate message payload: " \o @]

\* case ocpp.CALL of ValidateMessage, and case ocpp.SEND past its version check
validateRequest(reg, ocppVersion, message, result, flip) ==
    IF GetAction(message) = ""
    THEN Outcome(ValidationAddError(result, actionEmptyErr), "nil", <<>>)
    ELSE wrapPayloadError(
             validatePayload(reg, ocppVersion, GetPayload(message),
                             GetAction(message) \o "Request", result, flip))

\* case ocpp.CALL_RESULT of ValidateMessage: no break after actionEmptyErr
validateResponse(reg, ocppVersion, message, result, flip) ==
    LET result1 == IF GetAction(message) = ""
                   THEN ValidationAddError(result, actionEmptyErr)
                   ELSE result
    IN  wrapPayloadError(
            validatePayload(reg, ocppVersion, GetPayload(message),
                            GetAction(message) \o "Response", result1, flip))

\* case ocpp.CALL_ERROR of ValidateMessage, and case ocpp.CALL_RESULT_ERROR
\* past its version check
validateErrorCode(message, castTo, result) ==
    IF message.dynamicType # castTo
    THEN Outcome(result, ErrCannotCastToCallError, <<>>)
    ELSE IF ~IsErrorCodeValid(message.errorCode)
    THEN Outcome(ValidationAddError(result, "invalid error code: " \o message.errorCode),
                 "nil", <<>>)
    ELSE Outcome(result, "nil", <<>>)

\* a version check that lets every version pass
versionMismatchNever(ocppVersion) == FALSE

\* the version check of the SEND and CALL_RESULT_ERROR cases
versionMismatch(ocppVersion) == ocppVersion # V21

\* a ValidateMessage that starts from a fresh result in the switch
ValidateMessageDropsIdError(reg, ocppVersion, message, flip) ==
    LET result == NewValidationResult
        typeId == GetMessageTypeId(message)
    IN  CASE typeId = CALL -> validateRequest(reg, ocppVersion, message, result, flip)
          [] typeId = CALL_RESULT -> validateResponse(reg, ocppVersion, message, result, flip)
          [] typeId = CALL_ERROR -> validateErrorCode(message, "CallError", result)
          [] OTHER -> Outcome(result, "nil", <<>>)

\* Validator.ValidateMessage: (result, error) and the GetSchema calls made
ValidateMessage(reg, ocppVersion, message, flip) ==
    LET result == IF GetUniqueId(message) = ""
                  THEN ValidationAddError(NewValidationResult, uniqueIdEmptyErr)
                  ELSE NewValidationResult
        typeId == GetMessageTypeId(message)
    IN  CASE typeId = CALL -> validateRequest(reg, ocppVersion, message, result, flip)
          [] typeId = SEND ->
                IF versionMismatch(ocppVersion)
                THEN Outcome(ValidationAddError(result,
                                 "SEND messages are only supported in OCPP 2.1"),
                             "nil", <<>>)
                ELSE validateRequest(reg, ocppVersion, message, result, flip)
          [] typeId = CALL_RESULT -> validateResponse(reg, ocppVersion, message, result, flip)
          [] typeId = CALL_ERROR -> validateErrorCode(message, "CallError", result)
          [] typeId = CALL_RESULT_ERROR ->
                IF versionMismatch(ocppVersion)
                THEN Outcome(ValidationAddError(result,
                                 "CALL_RESULT_ERROR messages are only supported in OCPP 2.1"),
                             "nil", <<>>)
                ELSE validateErrorCode(message, "CallResultError", result)
          [] OTHER -> Outcome(result, "nil", <<>>)

\* ------------------------------------------------------------------------
\* pkg/report: Aggregator
\* ------------------------------------------------------------------------
requestKey == "request"
responseKey == "response"

getKey(isRequest) == IF isRequest THEN requestKey ELSE responseKey

\* the Go zero value ValidationResult{}
ZeroValidationResult == [isValid |-> FALSE, errors |-> <<>>]

\* the Go zero value Results{}
ZeroResults == [ValidationResult |-> ZeroValidationResult, Result |-> ZeroResult]

\* the Go zero value Statistics{}
ZeroStatistics ==
    [ValidRequests |-> 0, ValidResponses |-> 0, InvalidRequests |-> 0,
     InvalidResponses |-> 0, UnparsableMessages |-> 0]

\* a nil map reference; reading it gives an empty map
NilMap == 0

\* the Go zero value Report{}
ZeroReport == [InvalidMessages |-> EmptyMap, NonParsableMessages |-> NilMap]

\* a.results[messageId][key], the zero Results when absent
slotOf(res, messageId, key) ==
    IF messageId \in DOMAIN res /\ key \in DOMAIN res[messageId]
    THEN res[messageId][key]
    ELSE ZeroResults

\* a.results[messageId][key] = value, creating the inner map when missing
putSlot(res, messageId, key, value) ==
    LET inner == IF messageId \in DOMAIN res THEN res[messageId] ELSE EmptyMap
    IN  MapPut(res, messageId, MapPut(inner, key, value))

\* Aggregator.AddValidationResults
AddValidationResults(res, messageId, isRequest, vResult) ==
    IF messageId = "" THEN res
    ELSE putSlot(res, messageId, getKey(isRequest),
             [slotOf(res, messageId, getKey(isRequest))
                 EXCEPT !.ValidationResult = vResult])

\* AddParserResult without the empty-id return
AddParserResultAnyId(res, messageId, isRequest, pResult) ==
    putSlot(res, messageId, getKey(isRequest),
        [slotOf(res, messageId, getKey(isRequest)) EXCEPT !.Result = pResult])

\* Aggregator.AddParserResult
AddParserResult(res, messageId, isRequest, pResult) ==
    IF messageId = "" THEN res
    ELSE putSlot(res, messageId, getKey(isRequest),
             [slotOf(res, messageId, getKey(isRequest))
                 EXCEPT !.Result = pResult])

\* Aggregator.AddNonParsableMessage: writes into the map that
\* a.nonParsableMessages refers to
AddNonParsableMessage(maps, ref, messageId, pResult) ==
    IF messageId = "" THEN maps
    ELSE [maps EXCEPT ![ref] = MapPut(@, messageId, Errors(pResult))]

\* the (message id, key) slots of a.results
Slots(res) == {<<id, key>> \in (DOMAIN res) \X {requestKey, responseKey} : key \in DOMAIN res[id]}

\* a slot judged by its parser Result alone
slotIsValidParserOnly(slot) == IsValid(slot.Result)

\* isValid as computed in the loops of CreateReport and GetStatistics
slotIsValid(slot) ==
    ValidationIsValid(slot.ValidationResult) /\ IsValid(slot.Result)

\* the switch that keeps track of statistics, run over every slot
countSlots(st, res) ==
    LET n(isRequest, valid) ==
            Cardinality({sl \in Slots(res) :
                /\ (sl[2] = requestKey) = isRequest
                /\ slotIsValid(res[sl[1]][sl[2]]) = valid})
    IN  [st EXCEPT !.ValidRequests = @ + n(TRUE, TRUE),
                   !.InvalidRequests = @ + n(TRUE, FALSE),
                   !.ValidResponses = @ + n(FALSE, TRUE),
                   !.InvalidResponses = @ + n(FALSE, FALSE)]

\* report.InvalidMessages as built by CreateReport
invalidMessages(res) ==
    [id \in {sl[1] : sl \in {x \in Slots(res) : ~slotIsValid(res[x[1]][x[2]])}} |->
        [key \in {k \in DOMAIN res[id] : ~slotIsValid(res[id][k])} |->
            ValidationErrors(res[id][key].ValidationResult) \o Errors(res[id][key].Result)]]

\* the Report literal of CreateReport: a new InvalidMessages map, and the
\* aggregator's own nonParsableMessages map
buildReport(res, ref) ==
    [InvalidMessages |-> invalidMessages(res), NonParsableMessages |-> ref]

\* ------------------------------------------------------------------------
\* pkg/report: Statistics
\* ------------------------------------------------------------------------
\* Go's int, scaled down to IntBits bits, two's complement
MaxInt == 2^(IntBits - 1) - 1

MinInt == -(2^(IntBits - 1))

\* the value an int expression has after wrapping around
WrapInt(x) == ((x - MinInt) % (2^IntBits)) + MinInt

\* a + b on Go ints
IntAdd(a, b) == WrapInt(a + b)

\* float64 values: a finite quotient num/den, or what a division by zero gives
Float(num, den) == [class |-> "finite", num |-> num, den |-> den]

FloatZero == Float(0, 1)

NaN == [class |-> "NaN", num |-> 0, den |-> 0]

Inf == [class |-> "Inf", num |-> 0, den |-> 0]

\* getPercentage: (float64(fraction) / float64(total)) * 100.0
getPercentage(fraction, whole) ==
    IF whole # 0 THEN Float(fraction * 100, whole)
    ELSE IF fraction = 0 THEN NaN ELSE Inf

\* a total that counts the unparsable messages too
GetTotalWithUnparsable(st) ==
    IntAdd(IntAdd(IntAdd(IntAdd(st.InvalidRequests, st.InvalidResponses), st.ValidRequests),
                  st.ValidResponses), st.UnparsableMessages)

\* Statistics.GetTotal
GetTotal(st) ==
    IntAdd(IntAdd(IntAdd(st.InvalidRequests, st.InvalidResponses), st.ValidRequests),
           st.ValidResponses)

\* Statistics.GetTotalRequest
GetTotalRequest(st) == IntAdd(st.InvalidRequests, st.ValidRequests)

\* Statistics.GetTotalResponses
GetTotalResponses(st) == IntAdd(st.InvalidResponses, st.ValidResponses)

\* the body shared by the six percentage helpers: 0.0 when the denominator
\* is 0, the percentage otherwise
percentageOf(fraction, whole) ==
    IF whole = 0 THEN FloatZero ELSE getPercentage(fraction, whole)

\* Statistics.ValidRequestPercentage
ValidRequestPercentage(st) == percentageOf(st.ValidRequests, GetTotalRequest(st))

\* Statistics.ValidResponsePercentage
ValidResponsePercentage(st) == percentageOf(st.ValidResponses, GetTotalResponses(st))

\* Statistics.InvalidRequestPercentage
InvalidRequestPercentage(st) == percentageOf(st.InvalidRequests, GetTotalRequest(st))

\* Statistics.InvalidResponsePercentage
InvalidResponsePercentage(st) == percentageOf(st.InvalidResponses, GetTotalResponses(st))

\* Statistics.TotalValidMessagesPercentage
TotalValidMessagesPercentage(st) ==
    percentageOf(IntAdd(st.ValidResponses, st.ValidRequests), GetTotal(st))

\* Statistics.TotalInvalidMessagesPercentage
TotalInvalidMessagesPercentage(st) ==
    percentageOf(IntAdd(st.InvalidRequests, st.InvalidResponses), GetTotal(st))

\* ------------------------------------------------------------------------
\* internal/validation: Service
\* ------------------------------------------------------------------------
\* RequestResponseResult.IsValid
RequestResponseIsValid(r) == IsValid(r.Request) /\ IsValid(r.Response)

\* (message, found) of the error-response slot
GetResponseError(r) ==
    [message |-> r.ResponseError.message, found |-> r.ResponseError.message # NoMessage]

\* report.NewAggregator, as a value: the first map allocated is its
\* nonParsableMessages
NewAggregator ==
    [results |-> EmptyMap,
     maps |-> [ref \in {NilMap, 1} |-> EmptyMap],
     nonParsableMessages |-> 1,
     reportGenerated |-> FALSE,
     stats |-> ZeroStatistics,
     report |-> ZeroReport]

\* NewService: one parser and one aggregator, made once
NewService == [parser |-> NewParserV2, aggregator |-> NewAggregator]

\* the first loop of parseAndValidate: AddNonParsableMessage for every entry
RECURSIVE addNonParsed(_, _, _, _)
addNonParsed(maps, ref, nonParsed, keys) ==
    IF keys = {} THEN maps
    ELSE LET line == CHOOSE k \in keys : TRUE
         IN  addNonParsed(AddNonParsableMessage(maps, ref, line, nonParsed[line]),
                          ref, nonParsed, keys \ {line})

\* the body of the second loop: AddParserResult for the slots holding a message
addParsedExchange(res, messageId, result) ==
    LET res1 == IF GetRequest(result).found
                THEN AddParserResult(res, messageId, TRUE, result.Request)
                ELSE res
    IN  IF GetResponse(result).found
        THEN AddParserResult(res1, messageId, FALSE, result.Response)
        ELSE res1

\* the second loop of parseAndValidate
RECURSIVE addParsed(_, _, _)
addParsed(res, parserResults, keys) ==
    IF keys = {} THEN res
    ELSE LET messageId == CHOOSE k \in keys : TRUE
         IN  addParsed(addParsedExchange(res, messageId, parserResults[messageId]),
                       parserResults, keys \ {messageId})

\* Service.filterValidMessages: maps.DeleteFunc on the map it is given
filterValidMessages(parserResults) ==
    [k \in {x \in DOMAIN parserResults : RequestResponseIsValid(parserResults[x])} |->
        parserResults[k]]

\* the outcome of the validation loop: the aggregator's results and the error
Validation(res, err) == [res |-> res, err |-> err]

\* the body of the validation loop, for one exchange
validateExchange(res, reg, ocppVersion, messageId, parserRes, flip) ==
    LET request == GetRequest(parserRes)
        response == GetResponse(parserRes)
        responseError == GetResponseError(parserRes)
        v1 == IF request.found
              THEN ValidateMessage(reg, ocppVersion, request.message, flip)
              ELSE Outcome(NewValidationResult, "nil", <<>>)
        res1 == IF request.found
                THEN AddValidationResults(res, messageId, TRUE, v1.result) ELSE res
        v2 == IF response.found
              THEN ValidateMessage(reg, ocppVersion, response.message, flip)
              ELSE Outcome(NewValidationResult, "nil", <<>>)
        res2 == IF response.found
                THEN AddValidationResults(res1, messageId, FALSE, v2.result) ELSE res1
        v3 == IF responseError.found
              THEN ValidateMessage(reg, ocppVersion, responseError.message, flip)
              ELSE Outcome(NewValidationResult, "nil", <<>>)
        res3 == IF responseError.found
                THEN AddValidationResults(res2, messageId, FALSE, v3.result) ELSE res2
    IN  IF v1.err # "nil"
        THEN Validation(res, "failed to validate request message: " \o v1.err)
        ELSE IF v2.err # "nil"
        THEN Validation(res1, "failed to validate response message: " \o v2.err)
        ELSE IF v3.err # "nil"
        THEN Validation(res2, "failed to validate response error message: " \o v3.err)
        ELSE Validation(res3, "nil")

\* the validation loop of parseAndValidate, over the exchanges in the order
\* the range yields them; it returns at the first hard error
RECURSIVE validateExchanges(_, _, _, _, _, _)
validateExchanges(res, reg, ocppVersion, validMessages, order, flip) ==
    IF order = <<>> THEN Validation(res, "nil")
    ELSE LET v == validateExchange(res, reg, ocppVersion, Head(order),
                                   validMessages[Head(order)], flip)
         IN  IF v.err # "nil" THEN v
             ELSE validateExchanges(v.res, reg, ocppVersion, validMessages, Tail(order), flip)

\* Aggregator.CreateReport on an aggregator value: the aggregator after the
\* call and the report returned
CreateReport(a) ==
    IF a.reportGenerated
    THEN [aggregator |-> a, report |-> a.report]
    ELSE LET r == buildReport(a.results, a.nonParsableMessages)
         IN  [aggregator |-> [a EXCEPT !.stats = countSlots(a.stats, a.results),
                                       !.report = r,
                                       !.reportGenerated = TRUE],
              report |-> r]

\* the exchange ids of a map in the order a range yields them
RangeOver(m, idOrder) == SelectSeq(idOrder, LAMBDA k : k \in DOMAIN m)

\* Service.parseAndValidate: the service after the call, the report and the
\* error returned; idOrder is the iteration order of the validation loop
parseAndValidate(svc, reg, ocppVersion, messages, idOrder, flip) ==
    LET fp == Parse(svc.parser, 1, messages, "")
        a == svc.aggregator
        maps1 == addNonParsed(a.maps, a.nonParsableMessages, fp.nonParsable,
                              DOMAIN fp.nonParsable)
        res1 == addParsed(a.results, fp.results, DOMAIN fp.results)
        validMessages == filterValidMessages(fp.results)
        v == validateExchanges(res1, reg, ocppVersion, validMessages,
                               RangeOver(validMessages, idOrder), flip)
        a1 == [a EXCEPT !.maps = maps1, !.results = v.res]
        parser1 == [fp EXCEPT !.results = validMessages]
    IN  IF v.err # "nil"
        THEN [service |-> [parser |-> parser1, aggregator |-> a1],
              returned |-> FALSE, report |-> ZeroReport, err |-> v.err]
        ELSE [service |-> [parser |-> parser1, aggregator |-> CreateReport(a1).aggregator],
              returned |-> TRUE, report |-> CreateReport(a1).report, err |-> "nil"]

\* ------------------------------------------------------------------------
\* pkg/parser: Parser, the single-message decoder
\* ------------------------------------------------------------------------
\* what a call returns: the message, the Result and the error, or a runtime
\* panic that unwinds the call
Returned(message, result, err) ==
    [panicked |-> FALSE, message |-> message, result |-> result, err |-> err]

Panic == [panicked |-> TRUE, message |-> NoMessage, result |-> NewResult, err |-> "nil"]

\* case ocpp.CALL_RESULT of Parser.parse: the payload is read at index 3,
\* which is out of range for an array of 3 elements
parseResponse(arr, uniqueId, result) ==
    IF Len(arr) < 4 THEN Panic
    ELSE Returned(CallResult(uniqueId, "", arr[4]), result, "nil")

\* Parser.parse(arr, result)
ParserParse(arr, result) ==
    IF Len(arr) < 3
    THEN Returned(NoMessage,
             AddError(result, "Expected at least 3 elements in the message, got "
                                \o FmtInt(Len(arr))), "nil")
    ELSE LET okType == arr[1].t = "num"
             result1 == IF okType THEN result
                        ELSE AddError(result,
                                "Expected first element to be a number (message type ID)")
             typeId == MessageType(IF okType THEN arr[1].n ELSE 0)
             okId == arr[2].t = "str"
             result2 == IF okId THEN result1
                        ELSE AddError(result1,
                                "Expected second element to be a string (unique ID)")
             uniqueId == IF okId THEN arr[2].s ELSE ""
         IN  CASE typeId = CALL ->
                    IF Len(arr) # 4
                    THEN Returned(NoMessage,
                             AddError(result2, "Expected 4 elements in the message, got "
                                                \o FmtInt(Len(arr))),
                             "Expected 4 elements in the message, got " \o FmtInt(Len(arr)))
                    ELSE IF arr[3].t # "str"
                    THEN Returned(NoMessage,
                             AddError(result2,
                                 "Expected second element to be a string (action ID)"),
                             "Expected second element to be a string (action ID), got "
                                \o FmtValue(arr[3]))
                    ELSE Returned(Call(uniqueId, arr[3].s, arr[4]), result2, "nil")
               [] typeId = CALL_RESULT -> parseResponse(arr, uniqueId, result2)
               [] typeId = CALL_ERROR ->
                    IF Len(arr) < 4
                    THEN Returned(NoMessage,
                             AddError(result2,
                                 "Invalid Call Error message. Expected array length >= 4, got "
                                    \o FmtInt(Len(arr))),
                             "Invalid Call Error message. Expected array length >= 4, got "
                                \o FmtValue(arr[3]))
                    ELSE LET okCode == arr[3].t = "str"
                             result3 == IF okCode THEN result2
                                        ELSE AddError(result2,
                                                "Invalid element " \o FmtValue(arr[3])
                                                \o " at 2, expected error code (string)")
                         IN  Returned(CallError(uniqueId,
                                          IF okCode THEN arr[3].s ELSE "",
                                          IF arr[4].t = "str" THEN arr[4].s ELSE "",
                                          IF Len(arr) > 4 THEN arr[5] ELSE JNull),
                                      result3, "nil")
               [] OTHER ->
                    Returned(NoMessage,
                        AddError(result2, "Unknown message type: " \o FmtInt(typeId)),
                        "Unknown message type: " \o FmtInt(typeId) \o " ")

\* Parser.ParseMessage(data)
ParseMessage(line) ==
    LET decoded == ParseJsonMessage(line)
    IN  IF decoded.err
        THEN Returned(NoMessage, AddError(NewResult, "cannot parse message"),
                      "cannot parse message: invalid JSON")
        ELSE LET parsed == ParserParse(decoded.arr, NewResult)
             IN  IF parsed.panicked THEN Panic
                 ELSE IF parsed.err # "nil"
                 THEN Returned(NoMessage, parsed.result,
                               "cannot parse message: " \o parsed.err)
                 ELSE parsed

\* ------------------------------------------------------------------------
\* The lines fed to the decoder
\* ------------------------------------------------------------------------
Ids == {"", "a"}

Arr(a) == [kind |-> "array", arr |-> a]

Payload == JObj("P")

Lines ==
    {[kind |-> "garbage", arr |-> <<>>], [kind |-> "null", arr |-> <<>>]}
    \cup {Arr(<<JNum(20), JStr("a")>>),
          Arr(<<JStr("2"), JStr("a"), Payload>>),
          Arr(<<JNum(20), JNum(70), JStr("A"), Payload>>),
          Arr(<<JNum(20), JStr("a"), JStr("A")>>),
          Arr(<<JNum(20), JStr("a"), JNum(50), Payload>>),
          Arr(<<JNum(40), JStr("a"), JStr("GenericError")>>),
          Arr(<<JNum(40), JStr("a"), JNum(10), JStr("d")>>)}
    \cup {Arr(<<JNum(130), JStr(id), Payload>>) : id \in Ids}
    \cup {Arr(<<JNum(60), JStr("a"), JStr("A"), Payload>>),
          Arr(<<JNum(50), JStr("a"), JStr("GenericError"), JStr("d")>>)}
    \cup {Arr(<<JNum(20), JStr(id), JStr("A"), Payload>>) : id \in Ids}
    \cup {Arr(<<JNum(30), JStr(id), JObj("Q")>>) : id \in Ids}
    \cup {Arr(<<JNum(40), JStr(id), JStr("GenericError"), JStr("d")>>) : id \in Ids}

\* ------------------------------------------------------------------------
\* The decoder as a state machine
\* ------------------------------------------------------------------------
NoWrite == [results |-> FALSE, nonParsable |-> FALSE]

\* the parser's maps as a value
Current ==
    [results |-> results, nonParsable |-> nonParsable,
     wroteResults |-> FALSE, wroteNonParsable |-> FALSE]

\* NewParserV2, with the process-wide configuration it runs under
ParserInit ==
    /\ results = NewParserV2.results
    /\ nonParsable = NewParserV2.nonParsable
    /\ responseType \in {"", "B"}
    /\ data = <<>>
    /\ pc = "idle"
    /\ total = 0
    /\ wrote = NoWrite
    /\ parseErr = "none"

\* Parse(data) with len(data) == 0: returns at once
ParseEmpty ==
    /\ pc = "idle"
    /\ data' = <<>>
    /\ parseErr' = "nil"
    /\ wrote' = NoWrite
    /\ UNCHANGED <<results, nonParsable, responseType, pc, total>>
    /\ UNCHANGED <<resultVars, registryVars, callerVars, aggregatorVars, validatorVars, statisticsVars, serviceVars,
                   messageParserVars>>

\* Parse(data) with a non-empty data: enters the loop
ParseBegin ==
    /\ pc = "idle"
    /\ data' = <<>>
    /\ pc' = "loop"
    /\ parseErr' = "none"
    /\ wrote' = NoWrite
    /\ UNCHANGED <<results, nonParsable, responseType, total>>
    /\ UNCHANGED <<resultVars, registryVars, callerVars, aggregatorVars, validatorVars, statisticsVars, serviceVars,
                   messageParserVars>>

\* one iteration of the loop, on the next line of data
ParseLine(message) ==
    /\ pc = "loop"
    /\ total < MaxLines
    /\ LET fp == ParseIteration(Current, Len(data), message, responseType)
       IN  /\ results' = fp.results
           /\ nonParsable' = fp.nonParsable
           /\ wrote' = [results |-> fp.wroteResults, nonParsable |-> fp.wroteNonParsable]
    /\ data' = Append(data, message)
    /\ total' = total + 1
    /\ UNCHANGED <<responseType, pc, parseErr>>
    /\ UNCHANGED <<resultVars, registryVars, callerVars, aggregatorVars, validatorVars, statisticsVars, serviceVars,
                   messageParserVars>>

\* the loop is over: return fp.results, fp.nonParsable, nil
ParseReturn ==
    /\ pc = "loop"
    /\ Len(data) >= 1
    /\ pc' = "idle"
    /\ parseErr' = "nil"
    /\ UNCHANGED <<results, nonParsable, responseType, data, total, wrote>>
    /\ UNCHANGED <<resultVars, registryVars, callerVars, aggregatorVars, validatorVars, statisticsVars, serviceVars,
                   messageParserVars>>

\* a parser nothing is done with
ParserIdle ==
    /\ results = NewParserV2.results
    /\ nonParsable = NewParserV2.nonParsable
    /\ responseType = ""
    /\ data = <<>>
    /\ pc = "idle"
    /\ total = 0
    /\ wrote = NoWrite
    /\ parseErr = "none"

ParserNext ==
    \/ ParseEmpty
    \/ ParseBegin
    \/ \E message \in Lines : ParseLine(message)
    \/ ParseReturn

\* ------------------------------------------------------------------------
\* Properties of the decoder
\* ------------------------------------------------------------------------
\* the last step decoded one more line of the current Parse call
DecodedLine == pc = "loop" /\ Len(data') = Len(data) + 1

IsArrayLine(line) == line.kind = "array" /\ Len(line.arr) >= 3

\* the line passes the shape checks of parse and has the given type id
IsTyped(line, typeId) ==
    /\ IsArrayLine(line)
    /\ line.arr[1].t = "num"
    /\ line.arr[2].t = "str"
    /\ MessageType(line.arr[1].n) = typeId

\* C1: Parse returns a nil error and every decoded line assigns to exactly one
\* of the two maps: the exchange map or the non-parsable map, never both,
\* never neither.
C1_EveryLineInExactlyOneMap ==
    /\ parseErr \in {"none", "nil"}
    /\ Len(data) >= 1 => (wrote.results # wrote.nonParsable)

\* the part of C1 that the code keeps: no line assigns to both maps, and the
\* error is nil
C1_NeverBothMaps ==
    /\ parseErr \in {"none", "nil"}
    /\ ~(wrote.results /\ wrote.nonParsable)

\* C2: on a fresh parser, the response [3,X,Q] followed by the request
\* [2,X,A,P] leaves the same exchange entry for X as the request followed by
\* the response.
C2_OrderIndependent ==
    (/\ pc = "idle"
     /\ total = 2
     /\ Len(data) = 2
     /\ IsTyped(data[1], CALL_RESULT)
     /\ IsTyped(data[2], CALL)
     /\ Len(data[2].arr) = 4
     /\ data[2].arr[3].t = "str"
     /\ data[1].arr[2].s # ""
     /\ data[1].arr[2].s = data[2].arr[2].s)
    => results[data[1].arr[2].s]
         = Parse(NewParserV2, 1, <<data[2], data[1]>>, responseType)
             .results[data[1].arr[2].s]

\* the result every bad line is filed with
IsBadLineResult(r) == ~IsValid(r) /\ Len(Errors(r)) = 1 /\ r.message = NoMessage

\* C9: a line at position n that is not a JSON array adds exactly the entry
\* "line n" to the non-parsable map (invalid, one diagnostic, no message),
\* touches no exchange entry, and the loop goes on: any next line is decoded
\* into the exchange map as it would have been without the bad line.
C9_BadLineIsSkipped ==
    [][(DecodedLine /\ ParseJsonMessage(data'[Len(data')]).err)
        => /\ results' = results
           /\ DOMAIN nonParsable' = DOMAIN nonParsable \cup {LineKey(Len(data'))}
           /\ \A k \in DOMAIN nonParsable : k # LineKey(Len(data'))
                  => nonParsable'[k] = nonParsable[k]
           /\ IsBadLineResult(nonParsable'[LineKey(Len(data'))])
           /\ pc' = "loop"
           /\ \A next \in Lines :
                  ParseIteration([Current EXCEPT !.nonParsable = nonParsable'],
                                 Len(data'), next, responseType).results
                    = ParseIteration(Current, Len(data'), next, responseType).results
      ]_vars

\* a bad line was filed under its position and a later line reached the
\* exchange map
C9_Witness ==
    /\ Len(data) = 2
    /\ ParseJsonMessage(data[1]).err
    /\ IsTyped(data[2], CALL)
    /\ "line 1" \in DOMAIN nonParsable
    /\ "a" \in DOMAIN results
    /\ results["a"].Request.message # NoMessage

\* the slot a line of the given type populates
SlotOf(entry, typeId) == IF typeId = CALL THEN entry.Request ELSE entry.Response

\* the messages stored in the exchange map
StoredMessages(rs) ==
    {rs[k].Request.message : k \in DOMAIN rs}
        \cup {rs[k].Response.message : k \in DOMAIN rs}
        \cup {rs[k].ResponseError.message : k \in DOMAIN rs}

Contains(errs, e) == \E i \in 1..Len(errs) : errs[i] = e

\* C10: no stored message has an empty UniqueId; a known-type line at
\* position n with an empty id lands under exchange key "line n", its message
\* carries UniqueId "line n", and the Result of the slot it populates is
\* invalid and contains the missing-unique-id error.
C10_EmptyIdGetsSurrogateAndError ==
    [][(/\ DecodedLine
        /\ \E typeId \in {CALL, CALL_RESULT, CALL_ERROR} :
               IsTyped(data'[Len(data')], typeId)
        /\ data'[Len(data')].arr[2].s = "")
        => LET key == LineKey(Len(data'))
               typeId == MessageType(data'[Len(data')].arr[1].n)
           IN  /\ \A m \in StoredMessages(results') : m # NoMessage => m.uniqueId # ""
               /\ key \in DOMAIN results'
               /\ LET slot == SlotOf(results'[key], typeId)
                  IN  /\ slot.message # NoMessage => slot.message.uniqueId = key
                      /\ ~IsValid(slot)
                      /\ Contains(Errors(slot), "Unique ID is missing in the message")
      ]_vars

\* the part of C10 that holds of the code: stored messages never carry an
\* empty UniqueId
C10_NoEmptyUniqueIdStored ==
    \A m \in StoredMessages(results) : m # NoMessage => m.uniqueId # ""

\* the line the last step decoded
LastLine == data'[Len(data')]

\* the type ids the switch of parse has a case for
KnownTypes == {CALL, CALL_RESULT, CALL_ERROR}

\* the line passes the shape checks of parse and its type id has no case
IsUnknownTyped(line) ==
    /\ IsArrayLine(line)
    /\ line.arr[1].t = "num"
    /\ line.arr[2].t = "str"
    /\ MessageType(line.arr[1].n) \notin KnownTypes

IsResponseToStoredRequest(line) ==
    /\ IsTyped(line, CALL_RESULT)
    /\ line.arr[2].s # ""
    /\ line.arr[2].s \in DOMAIN results
    /\ GetRequest(results[line.arr[2].s]).found
    /\ GetRequest(results[line.arr[2].s]).message.typeId = CALL
    /\ GetRequest(results[line.arr[2].s]).message.uniqueId = line.arr[2].s

IsSendLine(line) ==
    /\ IsTyped(line, SEND)
    /\ Len(line.arr) = 4
    /\ line.arr[2].s # ""
    /\ line.arr[3].t = "str"

\* a well-formed [5, X, code, description] line with a non-empty X
IsCallResultErrorLine(line) ==
    /\ IsTyped(line, CALL_RESULT_ERROR)
    /\ Len(line.arr) = 4
    /\ line.arr[2].s # ""
    /\ line.arr[3].t = "str"
    /\ line.arr[4].t = "str"

\* the line was reported as of unknown type under the key
ReportedUnknown(np, key, typeId) ==
    /\ key \in DOMAIN np
    /\ Contains(Errors(np[key]), "Unknown message type: " \o FmtInt(typeId))

\* C13: type ids 5 and 6 are known. [6, X, A, P] puts a Send message into
\* the Request slot of exchange X; [5, X, code, description] puts a
\* CallResultError into the ResponseError slot of exchange X and leaves a
\* stored Request and Response untouched; neither line is reported in the
\* non-parsable map as "Unknown message type".
C13_SendAndCallResultErrorAreKnown ==
    [][/\ (DecodedLine /\ IsSendLine(LastLine))
            => LET X == LastLine.arr[2].s
               IN  /\ X \in DOMAIN results'
                   /\ results'[X].Request.message
                        = Send(X, LastLine.arr[3].s, LastLine.arr[4])
                   /\ ~ReportedUnknown(nonParsable', X, SEND)
       /\ (DecodedLine /\ IsCallResultErrorLine(LastLine))
            => LET X == LastLine.arr[2].s
               IN  /\ X \in DOMAIN results'
                   /\ results'[X].ResponseError.message
                        = CallResultError(X, LastLine.arr[3].s, LastLine.arr[4].s, JNull)
                   /\ X \in DOMAIN results
                        => /\ results'[X].Request = results[X].Request
                           /\ results'[X].Response = results[X].Response
                   /\ ~ReportedUnknown(nonParsable', X, CALL_RESULT_ERROR)
      ]_vars



\* ------------------------------------------------------------------------
\* The result objects as a state machine
\* ------------------------------------------------------------------------
ErrorStrings == {"e1", "e2"}

\* NewResult() and NewValidationResult()
ResultInit ==
    /\ parserResult = NewResult
    /\ validationResult = NewValidationResult
    /\ addedToParser = <<>>
    /\ addedToValidation = <<>>

\* parserResult.AddError(err)
ResultAddError(err) ==
    /\ Len(addedToParser) < MaxErrors
    /\ parserResult' = AddError(parserResult, err)
    /\ addedToParser' = Append(addedToParser, err)
    /\ UNCHANGED <<validationResult, addedToValidation>>
    /\ UNCHANGED <<parserVars, registryVars, callerVars, aggregatorVars, validatorVars, statisticsVars, serviceVars,
                   messageParserVars>>

\* validationResult.AddError(err)
ValidationResultAddError(err) ==
    /\ Len(addedToValidation) < MaxErrors
    /\ validationResult' = ValidationAddError(validationResult, err)
    /\ addedToValidation' = Append(addedToValidation, err)
    /\ UNCHANGED <<parserResult, addedToParser>>
    /\ UNCHANGED <<parserVars, registryVars, callerVars, aggregatorVars, validatorVars, statisticsVars, serviceVars,
                   messageParserVars>>

ResultNext ==
    \/ \E err \in ErrorStrings : ResultAddError(err)
    \/ \E err \in ErrorStrings : ValidationResultAddError(err)

\* ------------------------------------------------------------------------
\* The registries under sequential use, one call at a time
\* ------------------------------------------------------------------------
RegistryTypes == {"InMemory", "Schema", "File"}

Versions == {V16, V21, "9.9"}

ActionNames == {"BootRequest", "BootResponse", "Boot"}

RawSchemas == {"S1", "S2", "{bad"}

NoCall ==
    [op |-> "none", version |-> "", action |-> "", rawSchema |-> "",
     overwrite |-> FALSE, err |-> "nil", before |-> EmptyMap,
     schema |-> NilSchema, found |-> FALSE]

\* NewInMemorySchemaRegistry, NewSchemaRegistry, NewFileSchemaRegistry(opts...)
RegistryInit ==
    /\ registryType \in RegistryTypes
    /\ overwriteConfig \in (IF registryType = "File" THEN BOOLEAN ELSE {FALSE})
    /\ schemasPerOcppVersion = EmptyMap
    /\ lastCall = NoCall
    /\ registered = {}

\* a registry nothing is done with
RegistryIdle ==
    /\ registryType = "InMemory"
    /\ overwriteConfig = FALSE
    /\ schemasPerOcppVersion = EmptyMap
    /\ lastCall = NoCall
    /\ registered = {}

\* RegisterSchema(version, action, rawSchema, WithOverwrite(option))
RegisterSchemaCall(version, action, rawSchema, option) ==
    /\ registryType = "File" => option = FALSE
    /\ LET overwrite == Overwrite(registryType, overwriteConfig, option)
           r == RegisterSchema(schemasPerOcppVersion, overwrite, version, action, rawSchema)
       IN  /\ schemasPerOcppVersion' = r.reg
           /\ lastCall' = [op |-> "Register", version |-> version, action |-> action,
                           rawSchema |-> rawSchema, overwrite |-> overwrite,
                           err |-> r.err, before |-> schemasPerOcppVersion,
                           schema |-> NilSchema, found |-> FALSE]
           /\ registered' = IF r.err = "nil"
                            THEN registered \cup {<<version, action>>}
                            ELSE registered
    /\ UNCHANGED <<registryType, overwriteConfig>>
    /\ UNCHANGED <<parserVars, resultVars, callerVars, aggregatorVars, validatorVars, statisticsVars, serviceVars,
                   messageParserVars>>

\* GetSchema(version, action)
GetSchemaCall(version, action) ==
    /\ LET g == GetSchema(schemasPerOcppVersion, version, action)
       IN  lastCall' = [op |-> "Get", version |-> version, action |-> action,
                        rawSchema |-> "", overwrite |-> FALSE, err |-> "nil",
                        before |-> schemasPerOcppVersion,
                        schema |-> g.schema, found |-> g.found]
    /\ UNCHANGED <<registryType, overwriteConfig, schemasPerOcppVersion, registered>>
    /\ UNCHANGED <<parserVars, resultVars, callerVars, aggregatorVars, validatorVars, statisticsVars, serviceVars,
                   messageParserVars>>

RegistryNext ==
    \/ \E version \in Versions, action \in ActionNames,
          rawSchema \in RawSchemas, option \in BOOLEAN :
            RegisterSchemaCall(version, action, rawSchema, option)
    \/ \E version \in Versions, action \in ActionNames : GetSchemaCall(version, action)

\* ------------------------------------------------------------------------
\* The registries under concurrent use
\* ------------------------------------------------------------------------
Callers == 1..NumCallers

NoCaller == 0

NoArgs == [version |-> "", action |-> "", rawSchema |-> "", overwrite |-> FALSE]

NoReturn == [err |-> "nil", schema |-> NilSchema, found |-> FALSE]

CallersInit ==
    /\ mu = [readers |-> {}, writer |-> NoCaller]
    /\ callerPc = [c \in Callers |-> "idle"]
    /\ callerArgs = [c \in Callers |-> NoArgs]
    /\ callerRet = [c \in Callers |-> NoReturn]

\* a goroutine is blocked in mu.Lock()
LockPending == \E c \in Callers : callerPc[c] = "lock" /\ registryType = "File"

\* mu.RLock() can return: no writer holds the mutex and none is waiting for it
CanRLock == mu.writer = NoCaller /\ ~LockPending

\* mu.Lock() can return
CanLock == mu.writer = NoCaller /\ mu.readers = {}

\* the lock RegisterSchema takes: mu.Lock() in FileSchemaRegistry, mu.RLock()
\* in InMemorySchemaRegistry and SchemaRegistry
RegisterTakesWriteLock(type) == type = "File"

\* RegisterSchema up to the lock: version, suffix and compile checks
RegisterEnter(c, version, action, rawSchema, option) ==
    /\ callerPc[c] = "idle"
    /\ registryType = "File" => option = FALSE
    /\ LET overwrite == Overwrite(registryType, overwriteConfig, option)
           err == IF ~IsValidProtocolVersion(version) THEN "invalid OCPP version"
                  ELSE IF ~(HasSuffix(action, RequestSuffix) \/ HasSuffix(action, ResponseSuffix))
                  THEN "action must end with 'Request' or 'Response'"
                  ELSE IF Compile(rawSchema).err THEN "failed to compile schema"
                  ELSE "nil"
       IN  /\ IF err # "nil"
              THEN /\ callerRet' = [callerRet EXCEPT ![c] = [NoReturn EXCEPT !.err = err]]
                   /\ UNCHANGED <<callerPc, callerArgs>>
              ELSE /\ callerArgs' = [callerArgs EXCEPT ![c] =
                        [version |-> version, action |-> action,
                         rawSchema |-> rawSchema, overwrite |-> overwrite]] /\ callerPc' = [callerPc EXCEPT ![c] = "lock"]
                   /\ callerRet' = [callerRet EXCEPT ![c] = NoReturn]
    /\ UNCHANGED <<mu, registryVars, parserVars, resultVars, aggregatorVars, validatorVars, statisticsVars, serviceVars,
                   messageParserVars>>

\* RegisterSchema acquires the mutex
RegisterLock(c) ==
    /\ callerPc[c] = "lock"
    /\ IF RegisterTakesWriteLock(registryType)
       THEN CanLock /\ mu' = [mu EXCEPT !.writer = c]
       ELSE CanRLock /\ mu' = [mu EXCEPT !.readers = @ \cup {c}]
    /\ callerPc' = [callerPc EXCEPT ![c] = "bucketExists"]
    /\ UNCHANGED <<callerArgs, callerRet, registryVars, parserVars, resultVars, aggregatorVars, validatorVars, statisticsVars, serviceVars,
                   messageParserVars>>

\* if _, exists := schemasPerOcppVersion[ocppVersion]; !exists
RegisterBucketExists(c) ==
    /\ callerPc[c] = "bucketExists"
    /\ callerPc' = [callerPc EXCEPT ![c] =
            IF callerArgs[c].version \in DOMAIN schemasPerOcppVersion
            THEN "actionExists" ELSE "makeBucket"]
    /\ UNCHANGED <<mu, callerArgs, callerRet, registryVars, parserVars, resultVars, aggregatorVars, validatorVars, statisticsVars, serviceVars,
                   messageParserVars>>

\* schemasPerOcppVersion[ocppVersion] = make(map[string]*jsonschema.Schema)
RegisterMakeBucket(c) ==
    /\ callerPc[c] = "makeBucket"
    /\ schemasPerOcppVersion' = MapPut(schemasPerOcppVersion, callerArgs[c].version, EmptyMap)
    /\ callerPc' = [callerPc EXCEPT ![c] = "actionExists"]
    /\ UNCHANGED <<mu, callerArgs, callerRet, registryType, overwriteConfig,
                   lastCall, registered, parserVars, resultVars, aggregatorVars, validatorVars, statisticsVars, serviceVars, messageParserVars>>

\* the check for an existing schema when overwrite is off
RegisterActionExists(c) ==
    /\ callerPc[c] = "actionExists"
    /\ IF (~callerArgs[c].overwrite)
            /\ callerArgs[c].action \in DOMAIN schemasPerOcppVersion[callerArgs[c].version]
       THEN /\ callerRet' = [callerRet EXCEPT ![c] =
                    [NoReturn EXCEPT !.err = "schema already exists"]]
            /\ callerPc' = [callerPc EXCEPT ![c] = "registerUnlock"]
       ELSE /\ callerPc' = [callerPc EXCEPT ![c] = "store"]
            /\ UNCHANGED callerRet
    /\ UNCHANGED <<mu, callerArgs, registryVars, parserVars, resultVars, aggregatorVars, validatorVars, statisticsVars, serviceVars,
                   messageParserVars>>

\* schemasPerOcppVersion[ocppVersion][action] = schema
RegisterStore(c) ==
    /\ callerPc[c] = "store"
    /\ schemasPerOcppVersion' =
            storeSchema(schemasPerOcppVersion, callerArgs[c].version,
                        callerArgs[c].action, Compile(callerArgs[c].rawSchema).schema)
    /\ callerRet' = [callerRet EXCEPT ![c] = NoReturn]
    /\ callerPc' = [callerPc EXCEPT ![c] = "registerUnlock"]
    /\ UNCHANGED <<mu, callerArgs, registryType, overwriteConfig,
                   lastCall, registered, parserVars, resultVars, aggregatorVars, validatorVars, statisticsVars, serviceVars, messageParserVars>>

\* the deferred unlock of RegisterSchema
RegisterUnlock(c) ==
    /\ callerPc[c] = "registerUnlock"
    /\ mu' = IF RegisterTakesWriteLock(registryType)
             THEN [mu EXCEPT !.writer = NoCaller]
             ELSE [mu EXCEPT !.readers = @ \ {c}]
    /\ callerPc' = [callerPc EXCEPT ![c] = "idle"]
    /\ callerArgs' = [callerArgs EXCEPT ![c] = NoArgs]
    /\ UNCHANGED <<callerRet, registryVars, parserVars, resultVars, aggregatorVars, validatorVars, statisticsVars, serviceVars,
                   messageParserVars>>

\* GetSchema up to the lock
GetEnter(c, version, action) ==
    /\ callerPc[c] = "idle"
    /\ callerArgs' = [callerArgs EXCEPT ![c] =
            [NoArgs EXCEPT !.version = version, !.action = action]]
    /\ callerPc' = [callerPc EXCEPT ![c] = "rlock"]
    /\ callerRet' = [callerRet EXCEPT ![c] = NoReturn]
    /\ UNCHANGED <<mu, registryVars, parserVars, resultVars, aggregatorVars, validatorVars, statisticsVars, serviceVars,
                   messageParserVars>>

\* GetSchema acquires the read lock
GetLock(c) ==
    /\ callerPc[c] = "rlock"
    /\ CanRLock
    /\ mu' = [mu EXCEPT !.readers = @ \cup {c}]
    /\ callerPc' = [callerPc EXCEPT ![c] = "read"]
    /\ UNCHANGED <<callerArgs, callerRet, registryVars, parserVars, resultVars, aggregatorVars, validatorVars, statisticsVars, serviceVars,
                   messageParserVars>>

\* GetSchema reads the two maps
GetRead(c) ==
    /\ callerPc[c] = "read"
    /\ LET g == GetSchema(schemasPerOcppVersion, callerArgs[c].version, callerArgs[c].action)
       IN  callerRet' = [callerRet EXCEPT ![c] =
                [err |-> "nil", schema |-> g.schema, found |-> g.found]]
    /\ callerPc' = [callerPc EXCEPT ![c] = "getUnlock"]
    /\ UNCHANGED <<mu, callerArgs, registryVars, parserVars, resultVars, aggregatorVars, validatorVars, statisticsVars, serviceVars,
                   messageParserVars>>

\* the deferred RUnlock of GetSchema
GetUnlock(c) ==
    /\ callerPc[c] = "getUnlock"
    /\ mu' = [mu EXCEPT !.readers = @ \ {c}]
    /\ callerPc' = [callerPc EXCEPT ![c] = "idle"]
    /\ callerArgs' = [callerArgs EXCEPT ![c] = NoArgs]
    /\ UNCHANGED <<callerRet, registryVars, parserVars, resultVars, aggregatorVars, validatorVars, statisticsVars, serviceVars,
                   messageParserVars>>

ConcurrentVersions == {V16, "9.9"}

ConcurrentActions == {"BootRequest"}

ConcurrentSchemas == {"S1", "S2"}

CallersNext ==
    \E c \in Callers :
        \/ \E version \in ConcurrentVersions, action \in ConcurrentActions,
              rawSchema \in ConcurrentSchemas, option \in BOOLEAN :
                RegisterEnter(c, version, action, rawSchema, option)
        \/ RegisterLock(c)
        \/ RegisterBucketExists(c)
        \/ RegisterMakeBucket(c)
        \/ RegisterActionExists(c)
        \/ RegisterStore(c)
        \/ RegisterUnlock(c)
        \/ \E version \in ConcurrentVersions, action \in ConcurrentActions :
                GetEnter(c, version, action)
        \/ GetLock(c)
        \/ GetRead(c)
        \/ GetUnlock(c)

\* ------------------------------------------------------------------------
\* The aggregator as a state machine
\* ------------------------------------------------------------------------
MessageIds == {"", "m1"}

ParserResults == {NewResult, AddError(NewResult, "parse error")}

ValidationResults ==
    {NewValidationResult, ValidationAddError(NewValidationResult, "schema error")}

NonParsableResults ==
    {AddError(NewResult, "Message is not a valid OCPP message"),
     AddError(NewResult, "Unknown message type: 13")}

\* nothing returned yet
NoReport == [returned |-> FALSE, value |-> ZeroReport]

NoSnapshot == [taken |-> FALSE, InvalidMessages |-> EmptyMap, NonParsableMessages |-> EmptyMap]

\* the contents a Report value shows to its holder
Contents(r) ==
    [InvalidMessages |-> r.InvalidMessages,
     NonParsableMessages |-> stringListMaps[r.NonParsableMessages]]

\* NewAggregator
AggregatorInit ==
    /\ stringListMaps = [ref \in {NilMap, 1} |-> EmptyMap]
    /\ aggregatorResults = EmptyMap
    /\ nonParsableMessages = 1
    /\ reportGenerated = FALSE
    /\ stats = ZeroStatistics
    /\ report = ZeroReport
    /\ returnedReport = NoReport
    /\ returnedStatistics = ZeroStatistics
    /\ firstReport = NoSnapshot
    /\ adds = 0
    /\ statisticsCalls = 0
    /\ resets = 0

AddValidationResultsCall(messageId, isRequest, validationRes) ==
    /\ adds < MaxAdds
    /\ adds' = adds + 1
    /\ aggregatorResults' =
            AddValidationResults(aggregatorResults, messageId, isRequest, validationRes)
    /\ UNCHANGED <<stringListMaps, nonParsableMessages, reportGenerated, stats, report,
                   returnedReport, returnedStatistics, firstReport, statisticsCalls, resets>>
    /\ UNCHANGED <<parserVars, resultVars, registryVars, callerVars, validatorVars, statisticsVars, serviceVars,
                   messageParserVars>>

AddParserResultCall(messageId, isRequest, parserRes) ==
    /\ adds < MaxAdds
    /\ adds' = adds + 1
    /\ aggregatorResults' =
            AddParserResult(aggregatorResults, messageId, isRequest, parserRes)
    /\ UNCHANGED <<stringListMaps, nonParsableMessages, reportGenerated, stats, report,
                   returnedReport, returnedStatistics, firstReport, statisticsCalls, resets>>
    /\ UNCHANGED <<parserVars, resultVars, registryVars, callerVars, validatorVars, statisticsVars, serviceVars,
                   messageParserVars>>

AddNonParsableMessageCall(messageId, parserRes) ==
    /\ adds < MaxAdds
    /\ adds' = adds + 1
    /\ stringListMaps' =
            AddNonParsableMessage(stringListMaps, nonParsableMessages, messageId, parserRes)
    /\ UNCHANGED <<aggregatorResults, nonParsableMessages, reportGenerated, stats, report,
                   returnedReport, returnedStatistics, firstReport, statisticsCalls, resets>>
    /\ UNCHANGED <<parserVars, resultVars, registryVars, callerVars, validatorVars, statisticsVars, serviceVars,
                   messageParserVars>>

\* Aggregator.CreateReport
CreateReportCall ==
    /\ IF reportGenerated
       THEN /\ returnedReport' = [returned |-> TRUE, value |-> report]
            /\ UNCHANGED <<stats, report, reportGenerated, firstReport>>
       ELSE LET r == buildReport(aggregatorResults, nonParsableMessages)
            IN  /\ stats' = countSlots(stats, aggregatorResults)
                /\ report' = r
                /\ returnedReport' = [returned |-> TRUE, value |-> r]
                /\ reportGenerated' = TRUE
                /\ firstReport' = [taken |-> TRUE,
                                   InvalidMessages |-> r.InvalidMessages,
                                   NonParsableMessages |->
                                        stringListMaps[r.NonParsableMessages]]
    /\ UNCHANGED <<stringListMaps, aggregatorResults, nonParsableMessages,
                   returnedStatistics, adds, statisticsCalls, resets>>
    /\ UNCHANGED <<parserVars, resultVars, registryVars, callerVars, validatorVars, statisticsVars, serviceVars,
                   messageParserVars>>

\* Aggregator.GetStatistics
GetStatisticsCall ==
    /\ statisticsCalls < MaxStatisticsCalls
    /\ statisticsCalls' = statisticsCalls + 1
    /\ stats' = IF ~reportGenerated THEN countSlots(stats, aggregatorResults) ELSE stats
    /\ returnedStatistics' = stats'
    /\ UNCHANGED <<stringListMaps, aggregatorResults, nonParsableMessages, reportGenerated,
                   report, returnedReport, firstReport, adds, resets>>
    /\ UNCHANGED <<parserVars, resultVars, registryVars, callerVars, validatorVars, statisticsVars, serviceVars,
                   messageParserVars>>

\* a Reset that leaves reportGenerated as it was
ResetCallKeepsMemo ==
    /\ resets < MaxResets
    /\ resets' = resets + 1
    /\ aggregatorResults' = EmptyMap
    /\ nonParsableMessages' = resets + 2
    /\ stringListMaps' = [ref \in (DOMAIN stringListMaps) \cup {resets + 2} |->
                            IF ref = resets + 2 THEN EmptyMap ELSE stringListMaps[ref]]
    /\ stats' = ZeroStatistics
    /\ firstReport' = NoSnapshot
    /\ UNCHANGED <<reportGenerated, report, returnedReport, returnedStatistics, adds,
                   statisticsCalls>>
    /\ UNCHANGED <<parserVars, resultVars, registryVars, callerVars, validatorVars, statisticsVars, serviceVars,
                   messageParserVars>>

\* Aggregator.Reset: new maps, counters to zero; a.report is left as it is
ResetCall ==
    /\ resets < MaxResets
    /\ resets' = resets + 1
    /\ aggregatorResults' = EmptyMap
    /\ nonParsableMessages' = resets + 2
    /\ stringListMaps' = [ref \in (DOMAIN stringListMaps) \cup {resets + 2} |->
                            IF ref = resets + 2 THEN EmptyMap ELSE stringListMaps[ref]]
    /\ reportGenerated' = FALSE
    /\ stats' = ZeroStatistics
    /\ firstReport' = NoSnapshot
    /\ UNCHANGED <<report, returnedReport, returnedStatistics, adds, statisticsCalls>>
    /\ UNCHANGED <<parserVars, resultVars, registryVars, callerVars, validatorVars, statisticsVars, serviceVars,
                   messageParserVars>>

AggregatorNext ==
    \/ \E messageId \in MessageIds, isRequest \in BOOLEAN, v \in ValidationResults :
            AddValidationResultsCall(messageId, isRequest, v)
    \/ \E messageId \in MessageIds, isRequest \in BOOLEAN, r \in ParserResults :
            AddParserResultCall(messageId, isRequest, r)
    \/ \E messageId \in MessageIds, r \in NonParsableResults :
            AddNonParsableMessageCall(messageId, r)
    \/ CreateReportCall
    \/ GetStatisticsCall
    \/ ResetCall

\* ------------------------------------------------------------------------
\* The validator as a state machine
\* ------------------------------------------------------------------------
UniqueIds == {"", "u1"}

\* "Boot" has schemas in the registries below, "Stop" has none
Actions == {"", "Boot", "Stop"}

\* nil, a payload that satisfies the schema, payloads with one and two
\* violations
Payloads == {JNull, JObj("ok"), JObj("bad1"), JObj("bad2")}

DeclaredCodes == {"", "GenericError", "FormationViolation", "Bogus"}

\* the messages handed to ValidateMessage; the last two families are values
\* of type *Call that carry the type id of an error response
Messages ==
    {Call(u, a, pl) : u \in UniqueIds, a \in Actions, pl \in Payloads}
    \cup {Send(u, a, pl) : u \in UniqueIds, a \in Actions, pl \in Payloads}
    \cup {CallResult(u, a, pl) : u \in UniqueIds, a \in Actions, pl \in Payloads}
    \cup {CallError(u, c, "d", JNull) : u \in UniqueIds, c \in DeclaredCodes}
    \cup {CallResultError(u, c, "d", JNull) : u \in UniqueIds, c \in DeclaredCodes}
    \cup {[Call(u, "", JNull) EXCEPT !.typeId = CALL_ERROR] : u \in UniqueIds}
    \cup {[Call(u, "", JNull) EXCEPT !.typeId = CALL_RESULT_ERROR] : u \in UniqueIds}

ValidatorVersions == {V16, V21}

\* the registries the validator runs against, each built by RegisterSchema
ValidatorRegistries ==
    LET r1 == RegisterSchema(EmptyMap, FALSE, V16, "BootRequest", "S1").reg
        r2 == RegisterSchema(r1, FALSE, V16, "BootResponse", "S2").reg
        r3 == RegisterSchema(r2, FALSE, V21, "BootRequest", "S1").reg
    IN  {EmptyMap, r1, r3}

NoValidation == [called |-> FALSE, version |-> "", message |-> NoMessage]

ValidatorInit ==
    /\ validatorCall = NoValidation
    /\ validatorReturn = Outcome(NewValidationResult, "nil", <<>>)

\* a registry that holds schemas, before the validator is used
ValidatorRegistryInit ==
    /\ registryType = "InMemory"
    /\ overwriteConfig = FALSE
    /\ schemasPerOcppVersion \in ValidatorRegistries
    /\ lastCall = NoCall
    /\ registered = {<<v, a>> \in Versions \X ActionNames :
                        GetSchema(schemasPerOcppVersion, v, a).found}

\* ValidateMessage(version, message); flip is the iteration order of the
\* evaluation errors
ValidateMessageCall(ocppVersion, message, flip) ==
    /\ validatorCall' = [called |-> TRUE, version |-> ocppVersion, message |-> message]
    /\ validatorReturn' = ValidateMessage(schemasPerOcppVersion, ocppVersion, message, flip)
    /\ UNCHANGED <<parserVars, resultVars, registryVars, callerVars, aggregatorVars, statisticsVars, serviceVars,
                   messageParserVars>>

ValidatorNext ==
    \E ocppVersion \in ValidatorVersions, message \in Messages, flip \in BOOLEAN :
        ValidateMessageCall(ocppVersion, message, flip)

\* ------------------------------------------------------------------------
\* Statistics values and the methods called on them
\* ------------------------------------------------------------------------
\* counter values: small counts and the largest int
Counters == {0, 1, 2, MaxInt}

StatisticsValues ==
    [ValidRequests : Counters, ValidResponses : Counters, InvalidRequests : Counters,
     InvalidResponses : Counters, UnparsableMessages : {0, 1}]

PercentageMethods ==
    {"ValidRequestPercentage", "ValidResponsePercentage", "InvalidRequestPercentage",
     "InvalidResponsePercentage", "TotalValidMessagesPercentage",
     "TotalInvalidMessagesPercentage"}

StatisticsMethods == PercentageMethods \cup {"GetTotal", "GetTotalRequest", "GetTotalResponses"}

IntResult(n) == [class |-> "int", num |-> n, den |-> 1]

\* what a method of Statistics returns
CallStatistics(method, st) ==
    CASE method = "ValidRequestPercentage" -> ValidRequestPercentage(st)
      [] method = "ValidResponsePercentage" -> ValidResponsePercentage(st)
      [] method = "InvalidRequestPercentage" -> InvalidRequestPercentage(st)
      [] method = "InvalidResponsePercentage" -> InvalidResponsePercentage(st)
      [] method = "TotalValidMessagesPercentage" -> TotalValidMessagesPercentage(st)
      [] method = "TotalInvalidMessagesPercentage" -> TotalInvalidMessagesPercentage(st)
      [] method = "GetTotal" -> IntResult(GetTotal(st))
      [] method = "GetTotalRequest" -> IntResult(GetTotalRequest(st))
      [] method = "GetTotalResponses" -> IntResult(GetTotalResponses(st))

\* no Statistics value in use
StatisticsIdle ==
    /\ statistics = ZeroStatistics
    /\ statisticsMethod = ""
    /\ statisticsResult = IntResult(0)

\* any Statistics value with non-negative counters
StatisticsInit ==
    /\ statistics \in StatisticsValues
    /\ statisticsMethod = ""
    /\ statisticsResult = IntResult(0)

StatisticsCall(method) ==
    /\ statisticsMethod' = method
    /\ statisticsResult' = CallStatistics(method, statistics)
    /\ UNCHANGED statistics
    /\ UNCHANGED <<parserVars, resultVars, registryVars, callerVars, aggregatorVars,
                   validatorVars, serviceVars, messageParserVars>>

StatisticsNext == \E method \in StatisticsMethods : StatisticsCall(method)

\* ------------------------------------------------------------------------
\* The Service as a state machine
\* ------------------------------------------------------------------------
\* the lines handed to a validation run
ServiceLines ==
    {[kind |-> "garbage", arr |-> <<>>],
     Arr(<<JNum(20), JStr("a"), JStr("Boot"), JObj("ok")>>),
     Arr(<<JNum(20), JStr("a"), JStr("Boot"), JObj("bad1")>>),
     Arr(<<JNum(30), JStr("a"), JObj("ok")>>),
     Arr(<<JNum(40), JStr("a"), JNum(10), JStr("d")>>),
     Arr(<<JNum(20), JStr("b"), JStr("Boot"), JObj("ok")>>),
     Arr(<<JNum(20), JStr("b"), JStr("Stop"), JObj("ok")>>)}

\* the line lists of a run: one message, or the lines of a file
ServiceInputs == UNION {[1..n -> ServiceLines] : n \in 1..MaxServiceLines}

\* the orders in which a range over the exchange map can yield the ids
IdOrders == {<<"a", "b">>, <<"b", "a">>}

\* the registry the Service is given: 1.6 schemas for Boot
ServiceRegistry ==
    LET r1 == RegisterSchema(EmptyMap, FALSE, V16, "BootRequest", "S1").reg
    IN  RegisterSchema(r1, FALSE, V16, "BootResponse", "S2").reg

NoRun == [version |-> "", messages |-> <<>>, idOrder |-> <<>>, flip |-> FALSE]

\* no Service in use
ServiceIdle ==
    /\ serviceCall = NoRun
    /\ serviceErr = "none"
    /\ serviceRuns = 0

\* the registry of the Service, before the first run
ServiceRegistryInit ==
    /\ registryType = "InMemory"
    /\ overwriteConfig = FALSE
    /\ schemasPerOcppVersion = ServiceRegistry
    /\ lastCall = NoCall
    /\ registered = {<<v, a>> \in Versions \X ActionNames :
                        GetSchema(schemasPerOcppVersion, v, a).found}

\* the Service as the variables hold it
CurrentService ==
    [parser |-> Current,
     aggregator |-> [results |-> aggregatorResults,
                     maps |-> stringListMaps,
                     nonParsableMessages |-> nonParsableMessages,
                     reportGenerated |-> reportGenerated,
                     stats |-> stats,
                     report |-> report]]

\* one validation run on the Service: ValidateMessage, ValidateFile or a
\* WithReport variant, each a call of parseAndValidate
ValidationRun(ocppVersion, messages, idOrder, flip) ==
    /\ serviceRuns < MaxRuns
    /\ serviceRuns' = serviceRuns + 1
    /\ serviceCall' = [version |-> ocppVersion, messages |-> messages,
                       idOrder |-> idOrder, flip |-> flip]
    /\ \E run \in {parseAndValidate(CurrentService, schemasPerOcppVersion, ocppVersion,
                                     messages, idOrder, flip)} :
           /\ serviceErr' = run.err
           /\ results' = run.service.parser.results
           /\ nonParsable' = run.service.parser.nonParsable
           /\ aggregatorResults' = run.service.aggregator.results
           /\ stringListMaps' = run.service.aggregator.maps
           /\ reportGenerated' = run.service.aggregator.reportGenerated
           /\ stats' = run.service.aggregator.stats
           /\ report' = run.service.aggregator.report
           /\ returnedReport' = [returned |-> run.returned, value |-> run.report]
    /\ UNCHANGED <<responseType, data, pc, total, wrote, parseErr>>
    /\ UNCHANGED <<nonParsableMessages, returnedStatistics, firstReport, adds,
                   statisticsCalls, resets>>
    /\ UNCHANGED <<resultVars, registryVars, callerVars, validatorVars, statisticsVars,
                   messageParserVars>>

ServiceNext ==
    \E messages \in ServiceInputs, idOrder \in IdOrders, flip \in BOOLEAN :
        ValidationRun(V16, messages, idOrder, flip)

\* ------------------------------------------------------------------------
\* The single-message decoder as a state machine
\* ------------------------------------------------------------------------
\* the elements a message is made of
TypeElements == {JNum(20), JNum(30), JNum(40), JNum(130), JStr("2")}

IdElements == {JStr("a"), JStr(""), JNum(70)}

OtherElements == {JStr("A"), JObj("P"), JNum(10)}

\* the arguments of ParseMessage: text that is not a JSON array, short
\* arrays, and arrays of a type element, an id element and up to
\* MaxElements further elements
MessageInputs ==
    {[kind |-> "garbage", arr |-> <<>>], [kind |-> "null", arr |-> <<>>],
     Arr(<<JNum(30)>>), Arr(<<JNum(30), JStr("a")>>)}
    \cup {Arr(<<t, id>> \o rest) :
            t \in TypeElements, id \in IdElements,
            rest \in UNION {[1..n -> OtherElements] : n \in 1..MaxElements}}

NoLine == [kind |-> "none", arr |-> <<>>]

\* no call made
MessageParserIdle ==
    /\ parsedLine = NoLine
    /\ parsedReturn = Returned(NoMessage, NewResult, "nil")

\* messageParser.ParseMessage(line)
ParseMessageCall(line) ==
    /\ parsedLine' = line
    /\ parsedReturn' = ParseMessage(line)
    /\ UNCHANGED <<parserVars, resultVars, registryVars, callerVars, aggregatorVars,
                   validatorVars, statisticsVars, serviceVars>>

MessageParserNext == \E line \in MessageInputs : ParseMessageCall(line)

\* ------------------------------------------------------------------------
\* Specifications
\* ------------------------------------------------------------------------
\* a ParserV2 at work; everything else as constructed
InitParser == ParserInit /\ ResultInit /\ RegistryIdle /\ CallersInit /\ AggregatorInit
                /\ ValidatorInit /\ StatisticsIdle /\ ServiceIdle
                /\ MessageParserIdle

SpecParser == InitParser /\ [][ParserNext]_vars

\* the two result values at work
InitResult == ParserIdle /\ ResultInit /\ RegistryIdle /\ CallersInit /\ AggregatorInit
                /\ ValidatorInit /\ StatisticsIdle /\ ServiceIdle
                /\ MessageParserIdle

SpecResult == InitResult /\ [][ResultNext]_vars

\* a registry of any of the three kinds, called by one goroutine at a time
InitRegistry == ParserIdle /\ ResultInit /\ RegistryInit /\ CallersInit /\ AggregatorInit
                /\ ValidatorInit /\ StatisticsIdle /\ ServiceIdle
                /\ MessageParserIdle

SpecRegistry == InitRegistry /\ [][RegistryNext]_vars

\* the same registries, called by NumCallers goroutines
SpecRegistryConcurrent == InitRegistry /\ [][CallersNext]_vars

\* an Aggregator at work
InitAggregator == ParserIdle /\ ResultInit /\ RegistryIdle /\ CallersInit /\ AggregatorInit
                /\ ValidatorInit /\ StatisticsIdle /\ ServiceIdle
                /\ MessageParserIdle

SpecAggregator == InitAggregator /\ [][AggregatorNext]_vars

\* a Validator at work on a registry that holds schemas
InitValidator == ParserIdle /\ ResultInit /\ ValidatorRegistryInit /\ CallersInit
                    /\ AggregatorInit /\ ValidatorInit /\ StatisticsIdle /\ ServiceIdle
                /\ MessageParserIdle

SpecValidator == InitValidator /\ [][ValidatorNext]_vars

\* Statistics values under their methods
InitStatistics == ParserIdle /\ ResultInit /\ RegistryIdle /\ CallersInit /\ AggregatorInit
                    /\ ValidatorInit /\ StatisticsInit /\ ServiceIdle
                /\ MessageParserIdle

SpecStatistics == InitStatistics /\ [][StatisticsNext]_vars

\* a Service at work on a registry that holds schemas
InitService == ParserIdle /\ ResultInit /\ ServiceRegistryInit /\ CallersInit
                /\ AggregatorInit /\ ValidatorInit /\ StatisticsIdle /\ ServiceIdle
                /\ MessageParserIdle

SpecService == InitService /\ [][ServiceNext]_vars

\* a Parser decoding one message per call
InitMessageParser == ParserIdle /\ ResultInit /\ RegistryIdle /\ CallersInit /\ AggregatorInit
                        /\ ValidatorInit /\ StatisticsIdle /\ ServiceIdle
                        /\ MessageParserIdle

SpecMessageParser == InitMessageParser /\ [][MessageParserNext]_vars

\* ------------------------------------------------------------------------
\* Properties of the result objects
\* ------------------------------------------------------------------------
\* C8: a new result is valid with no errors; after n >= 1 AddError calls it is
\* invalid, stays invalid, and Errors() is the n added strings in call order,
\* duplicates included. For parser.Result and validator.ValidationResult.
C8_AddErrorAccumulates ==
    /\ [](/\ Len(addedToParser) = 0
              => IsValid(parserResult) /\ Errors(parserResult) = <<>>
          /\ Len(addedToParser) >= 1
              => ~IsValid(parserResult) /\ Errors(parserResult) = addedToParser
          /\ Len(addedToValidation) = 0
              => ValidationIsValid(validationResult)
                    /\ ValidationErrors(validationResult) = <<>>
          /\ Len(addedToValidation) >= 1
              => ~ValidationIsValid(validationResult)
                    /\ ValidationErrors(validationResult) = addedToValidation)
    /\ [][/\ ~IsValid(parserResult) => ~IsValid(parserResult')
          /\ ~ValidationIsValid(validationResult)
                => ~ValidationIsValid(validationResult')]_vars

\* both results hold the same error twice and a second, different error
C8_Witness ==
    /\ Errors(parserResult) = <<"e1", "e1", "e2">>
    /\ ValidationErrors(validationResult) = <<"e2", "e2", "e1">>
    /\ ~IsValid(parserResult)
    /\ ~ValidationIsValid(validationResult)

\* ------------------------------------------------------------------------
\* Properties of the registries under sequential use
\* ------------------------------------------------------------------------
\* what GetSchema answers for every key, on a given map
Answers(reg) ==
    [key \in Versions \X ActionNames |-> GetSchema(reg, key[1], key[2])]

FailedRegister == lastCall.op = "Register" /\ lastCall.err # "nil"

\* C5: a RegisterSchema call that returns an error (bad version, bad suffix,
\* schema that does not compile, existing entry without overwrite) leaves
\* every GetSchema answer as it was; the earlier schema of a duplicate stays.
C5_FailedRegisterChangesNothing ==
    /\ FailedRegister => Answers(schemasPerOcppVersion) = Answers(lastCall.before)
    /\ (/\ lastCall.op = "Register"
        /\ \/ ~IsValidProtocolVersion(lastCall.version)
           \/ ~(HasSuffix(lastCall.action, "Request") \/ HasSuffix(lastCall.action, "Response"))
           \/ lastCall.rawSchema = "{bad"
           \/ (~lastCall.overwrite)
                /\ GetSchema(lastCall.before, lastCall.version, lastCall.action).found)
       => lastCall.err # "nil"

\* a duplicate registration of another schema was refused and the first
\* schema is still the one returned
C5_Witness ==
    /\ FailedRegister
    /\ lastCall.err = "schema already exists"
    /\ lastCall.rawSchema = "S2"
    /\ GetSchema(schemasPerOcppVersion, lastCall.version, lastCall.action)
         = [schema |-> [compiledFrom |-> "S1"], found |-> TRUE]

\* a RegisterSchema call with overwrite enabled on a key that was registered
OverwritingRegister ==
    /\ lastCall.op = "Register"
    /\ lastCall.overwrite
    /\ GetSchema(lastCall.before, lastCall.version, lastCall.action).found
    /\ ~Compile(lastCall.rawSchema).err

\* C6: RegisterSchema with overwrite enabled, on an existing key and with a
\* schema that compiles, returns no error; GetSchema then returns the new
\* schema for that key and what it returned before for every other key.
C6_OverwriteReplacesOnlyThatKey ==
    OverwritingRegister
    => /\ lastCall.err = "nil"
       /\ \A key \in Versions \X ActionNames :
            Answers(schemasPerOcppVersion)[key]
              = IF key = <<lastCall.version, lastCall.action>>
                THEN [schema |-> [compiledFrom |-> lastCall.rawSchema], found |-> TRUE]
                ELSE Answers(lastCall.before)[key]

\* S1 was replaced by S2 while another action of the same version stayed
C6_Witness ==
    /\ OverwritingRegister
    /\ lastCall.rawSchema = "S2"
    /\ lastCall.action = "BootRequest"
    /\ GetSchema(lastCall.before, lastCall.version, "BootRequest").schema
         = [compiledFrom |-> "S1"]
    /\ GetSchema(schemasPerOcppVersion, lastCall.version, "BootRequest").schema
         = [compiledFrom |-> "S2"]
    /\ GetSchema(schemasPerOcppVersion, lastCall.version, "BootResponse").found

\* C7: GetSchema(version, action) is found with a non-nil schema exactly when
\* an earlier RegisterSchema for that version and action succeeded, and not
\* found with a nil schema otherwise; GetSchema changes nothing.
C7_FoundIffRegistered ==
    /\ [](\A key \in Versions \X ActionNames :
            LET g == GetSchema(schemasPerOcppVersion, key[1], key[2])
            IN  /\ g.found <=> key \in registered
                /\ g.found => g.schema # NilSchema
                /\ ~g.found => g.schema = NilSchema)
    /\ [][lastCall'.op = "Get"
            => /\ schemasPerOcppVersion' = schemasPerOcppVersion
               /\ lastCall'.found <=> <<lastCall'.version, lastCall'.action>> \in registered
               /\ lastCall'.err = "nil"]_vars

\* a lookup missed although the version has a bucket and the action is
\* registered under the other version
C7_Witness ==
    /\ lastCall.op = "Get"
    /\ ~lastCall.found
    /\ lastCall.version \in DOMAIN schemasPerOcppVersion
    /\ \E v \in DOMAIN schemasPerOcppVersion :
          v # lastCall.version /\ lastCall.action \in DOMAIN schemasPerOcppVersion[v]

\* ------------------------------------------------------------------------
\* Properties of the registries under concurrent use
\* ------------------------------------------------------------------------
\* the goroutine is inside RegisterSchema between lock and unlock
InRegisterSection(c) ==
    callerPc[c] \in {"bucketExists", "makeBucket", "actionExists", "store", "registerUnlock"}

\* the goroutine is inside GetSchema between RLock and RUnlock
InGetSection(c) == callerPc[c] \in {"read", "getUnlock"}

\* C3: in every registry implementation a RegisterSchema call inside its
\* critical section never overlaps another RegisterSchema call nor a GetSchema
\* call inside theirs; only GetSchema calls overlap each other.
C3_RegisterIsExclusive ==
    \A c, d \in Callers :
        (c # d /\ InRegisterSection(c)) => ~(InRegisterSection(d) \/ InGetSection(d))

\* what holds of the code: the exclusion for FileSchemaRegistry, and readers
\* overlapping only readers there
C3_FileRegisterIsExclusive ==
    registryType = "File" => C3_RegisterIsExclusive

\* ------------------------------------------------------------------------
\* Properties of the aggregator
\* ------------------------------------------------------------------------
\* C4: once CreateReport has returned a report, the report it returns later
\* (before any Reset) and the report value handed out earlier keep exactly the
\* InvalidMessages and NonParsableMessages contents the first report had when
\* it was returned, whatever Add* calls follow.
C4_ReportIsFrozen ==
    (firstReport.taken /\ returnedReport.returned /\ reportGenerated)
    => /\ Contents(returnedReport.value).InvalidMessages = firstReport.InvalidMessages
       /\ Contents(returnedReport.value).NonParsableMessages = firstReport.NonParsableMessages
       /\ Contents(report).InvalidMessages = firstReport.InvalidMessages
       /\ Contents(report).NonParsableMessages = firstReport.NonParsableMessages

\* the part of C4 that holds of the code: InvalidMessages is frozen
C4_InvalidMessagesFrozen ==
    (firstReport.taken /\ returnedReport.returned /\ reportGenerated)
    => /\ Contents(returnedReport.value).InvalidMessages = firstReport.InvalidMessages
       /\ Contents(report).InvalidMessages = firstReport.InvalidMessages

\* the state of the Aggregator struct
aggregatorState ==
    <<stringListMaps, aggregatorResults, nonParsableMessages, reportGenerated, stats, report>>

\* a call of one of the three Add* methods with the empty message id
AddWithEmptyId ==
    \/ \E isRequest \in BOOLEAN, v \in ValidationResults :
            AddValidationResultsCall("", isRequest, v)
    \/ \E isRequest \in BOOLEAN, r \in ParserResults :
            AddParserResultCall("", isRequest, r)
    \/ \E r \in NonParsableResults : AddNonParsableMessageCall("", r)

\* C19: AddParserResult, AddValidationResults and AddNonParsableMessage called
\* with an empty id leave every field of the aggregator as it was, and no
\* entry with the empty id exists in the results map or in a non-parsable
\* map; later reports and statistics are computed from these fields only.
C19_EmptyIdLeavesAggregatorUnchanged ==
    [][AddWithEmptyId =>
        /\ UNCHANGED aggregatorState
        /\ "" \notin DOMAIN aggregatorResults'
        /\ \A ref \in DOMAIN stringListMaps' : "" \notin DOMAIN stringListMaps'[ref]]_vars

\* only empty-id Add calls were made, and the report returned after them is
\* the report of an aggregator nothing was added to
C19_Witness ==
    /\ adds >= 1
    /\ resets = 0
    /\ aggregatorResults = EmptyMap
    /\ stringListMaps[nonParsableMessages] = EmptyMap
    /\ returnedReport.returned
    /\ Contents(returnedReport.value) =
            [InvalidMessages |-> EmptyMap, NonParsableMessages |-> EmptyMap]
    /\ stats = ZeroStatistics

\* the slots of a.results that are requests (or responses) and whose parser
\* Result and ValidationResult are both valid (or not both valid)
SlotsOfKind(isRequest, valid) ==
    {sl \in Slots(aggregatorResults) :
        /\ (sl[2] = requestKey) = isRequest
        /\ (/\ ValidationIsValid(aggregatorResults[sl[1]][sl[2]].ValidationResult)
            /\ IsValid(aggregatorResults[sl[1]][sl[2]].Result)) = valid}

\* a call of CreateReport that builds the report
CreateReportBuilds == CreateReportCall /\ ~reportGenerated

\* C20: a CreateReport that builds the report counts a slot as valid exactly
\* when its parser Result and its ValidationResult are both valid; the slot
\* is under InvalidMessages[id][key] exactly when it is not valid, with the
\* validation errors followed by the parser errors, and an id whose slots are
\* all valid is not in InvalidMessages.
C20_ReportClassifiesSlots ==
    [][CreateReportBuilds =>
        LET invalid == returnedReport'.value.InvalidMessages
            res == aggregatorResults
            notValid == SlotsOfKind(TRUE, FALSE) \cup SlotsOfKind(FALSE, FALSE)
        IN  /\ stats'.ValidRequests = stats.ValidRequests + Cardinality(SlotsOfKind(TRUE, TRUE))
            /\ stats'.InvalidRequests = stats.InvalidRequests + Cardinality(SlotsOfKind(TRUE, FALSE))
            /\ stats'.ValidResponses = stats.ValidResponses + Cardinality(SlotsOfKind(FALSE, TRUE))
            /\ stats'.InvalidResponses =
                    stats.InvalidResponses + Cardinality(SlotsOfKind(FALSE, FALSE))
            /\ DOMAIN invalid = {sl[1] : sl \in notValid}
            /\ \A id \in DOMAIN invalid :
                    /\ DOMAIN invalid[id] = {sl[2] : sl \in {x \in notValid : x[1] = id}}
                    /\ \A key \in DOMAIN invalid[id] :
                            invalid[id][key] =
                                ValidationErrors(res[id][key].ValidationResult)
                                    \o Errors(res[id][key].Result)]_vars

\* a report was built from a request slot that failed both validation and
\* parsing, and lists the validation error before the parser error
C20_Witness ==
    /\ returnedReport.returned
    /\ reportGenerated
    /\ "m1" \in DOMAIN aggregatorResults
    /\ "m1" \in DOMAIN returnedReport.value.InvalidMessages
    /\ requestKey \in DOMAIN returnedReport.value.InvalidMessages["m1"]
    /\ returnedReport.value.InvalidMessages["m1"][requestKey] =
            <<"schema error", "parse error">>
    /\ stats.InvalidRequests = 1

\* ------------------------------------------------------------------------
\* Properties of the validator
\* ------------------------------------------------------------------------
\* the message of the last call
Validated == validatorCall.message

\* the last call was on a request: type 2, or type 6 under 2.1
ValidatedRequest ==
    /\ validatorCall.called
    /\ \/ Validated.typeId = CALL
       \/ Validated.typeId = SEND /\ validatorCall.version = V21

\* the last call was on an error response: type 4, or type 5 under 2.1
ValidatedErrorResponse ==
    /\ validatorCall.called
    /\ \/ Validated.typeId = CALL_ERROR
       \/ Validated.typeId = CALL_RESULT_ERROR /\ validatorCall.version = V21

\* the last call was on a type-6 or type-5 message under a version before 2.1
ValidatedUnderOldVersion ==
    /\ validatorCall.called
    /\ Validated.typeId \in {SEND, CALL_RESULT_ERROR}
    /\ validatorCall.version # V21

ReturnedErrors == ValidationErrors(validatorReturn.result)

\* C14: for every message type, ValidateMessage on a message with an empty
\* unique id returns an invalid result that contains uniqueIdEmptyErr,
\* whatever else applies to the message (other errors, the early return on a
\* version mismatch, a hard error).
C14_EmptyUniqueIdAlwaysRecorded ==
    (validatorCall.called /\ GetUniqueId(Validated) = "")
    => /\ ~ValidationIsValid(validatorReturn.result)
       /\ Contains(ReturnedErrors, uniqueIdEmptyErr)

\* an empty id on a request that also ends in the hard error of a missing schema
C14_Witness ==
    /\ validatorCall.called
    /\ GetUniqueId(Validated) = ""
    /\ Validated.typeId = CALL
    /\ validatorReturn.err # "nil"
    /\ ReturnedErrors = <<uniqueIdEmptyErr>>

\* C15: on a request, GetSchema is called only when the action is non-empty
\* and the payload non-nil, then exactly once, with the given version and
\* action + "Request"; an empty action records actionEmptyErr, a nil payload
\* records payloadEmptyErr, both without a GetSchema call and with a nil error.
C15_RequestChecksActionAndPayload ==
    ValidatedRequest
    => /\ validatorReturn.calls # <<>>
            => (GetAction(Validated) # "" /\ GetPayload(Validated) # JNull)
       /\ (GetAction(Validated) # "" /\ GetPayload(Validated) # JNull)
            => validatorReturn.calls
                 = <<[version |-> validatorCall.version,
                      action |-> GetAction(Validated) \o "Request"]>>
       /\ GetAction(Validated) = ""
            => /\ Contains(ReturnedErrors, actionEmptyErr)
               /\ validatorReturn.calls = <<>>
               /\ validatorReturn.err = "nil"
       /\ GetPayload(Validated) = JNull
            => /\ Contains(ReturnedErrors, payloadEmptyErr)
               /\ validatorReturn.calls = <<>>
               /\ validatorReturn.err = "nil"

\* the part of C15 that holds of the code: the lookup rule, and
\* payloadEmptyErr for a nil payload when the action is not empty too
C15_RequestLookupOnlyWithActionAndPayload ==
    ValidatedRequest
    => /\ validatorReturn.calls # <<>>
            => (GetAction(Validated) # "" /\ GetPayload(Validated) # JNull)
       /\ (GetAction(Validated) # "" /\ GetPayload(Validated) # JNull)
            => validatorReturn.calls
                 = <<[version |-> validatorCall.version,
                      action |-> GetAction(Validated) \o "Request"]>>
       /\ GetAction(Validated) = ""
            => /\ Contains(ReturnedErrors, actionEmptyErr)
               /\ validatorReturn.calls = <<>>
               /\ validatorReturn.err = "nil"
       /\ GetPayload(Validated) = JNull
            => /\ validatorReturn.calls = <<>>
               /\ validatorReturn.err = "nil"
       /\ (GetAction(Validated) # "" /\ GetPayload(Validated) = JNull)
            => Contains(ReturnedErrors, payloadEmptyErr)

\* the evaluation errors of the payload the last call looked a schema up for
LookedUpErrors ==
    EvaluationErrors(
        GetSchema(schemasPerOcppVersion, validatorReturn.calls[1].version,
                  validatorReturn.calls[1].action).schema,
        GetPayload(Validated))

\* the errors ValidateMessage records before it reaches the schema
ErrorsBeforeSchema ==
    (IF GetUniqueId(Validated) = "" THEN <<uniqueIdEmptyErr>> ELSE <<>>)
        \o (IF GetAction(Validated) = "" THEN <<actionEmptyErr>> ELSE <<>>)

\* C16: when GetSchema answers found=false for the computed key the returned
\* error is non-nil and names the key and the version; when the schema is
\* found and the payload violates it the error is nil and the result is
\* invalid with one error string per violation; when the schema is found and
\* the payload satisfies it the error is nil and no schema error is added.
C16_LookupFailureIsHardError ==
    (validatorCall.called /\ validatorReturn.calls # <<>>)
    => LET call == validatorReturn.calls[1]
           g == GetSchema(schemasPerOcppVersion, call.version, call.action)
       IN  /\ Len(validatorReturn.calls) = 1
           /\ ~g.found
                => validatorReturn.err
                     = "unable to validate message payload: no schema found for action "
                          \o call.action \o " in OCPP version " \o call.version
           /\ g.found
                => /\ validatorReturn.err = "nil"
                   /\ Len(ReturnedErrors) = Len(ErrorsBeforeSchema) + Len(LookedUpErrors)
                   /\ \A i \in 1..Len(LookedUpErrors) :
                          Contains(ReturnedErrors, LookedUpErrors[i])
                   /\ LookedUpErrors # <<>> => ~ValidationIsValid(validatorReturn.result)
                   /\ LookedUpErrors = <<>> => ReturnedErrors = ErrorsBeforeSchema

\* a payload with two violations against a schema that was found
C16_Witness ==
    /\ validatorCall.called
    /\ validatorReturn.calls = <<[version |-> V16, action |-> "BootRequest"]>>
    /\ GetPayload(Validated) = JObj("bad2")
    /\ validatorReturn.err = "nil"
    /\ Len(ReturnedErrors) = 2
    /\ ~ValidationIsValid(validatorReturn.result)

\* C17: on an error response GetSchema is never called; for a CallError (a
\* CallResultError under 2.1) with a non-empty unique id the result is valid
\* exactly when the declared code is a known one, otherwise it is invalid and
\* contains "invalid error code: <code>", and the returned error is nil.
C17_ErrorResponseChecksCodeOnly ==
    ValidatedErrorResponse
    => /\ validatorReturn.calls = <<>>
       /\ (Validated.dynamicType \in {"CallError", "CallResultError"}
             /\ GetUniqueId(Validated) # "")
            => /\ validatorReturn.err = "nil"
               /\ ValidationIsValid(validatorReturn.result)
                    <=> Validated.errorCode \in ErrorCodes
               /\ Validated.errorCode \notin ErrorCodes
                    => ReturnedErrors = <<"invalid error code: " \o Validated.errorCode>>

\* a CallResultError under 2.1 with a code outside the enumeration
C17_Witness ==
    /\ ValidatedErrorResponse
    /\ Validated.dynamicType = "CallResultError"
    /\ GetUniqueId(Validated) # ""
    /\ ReturnedErrors = <<"invalid error code: Bogus">>
    /\ validatorReturn.err = "nil"

\* C18: under a version other than 2.1 a type-6 or type-5 message gets the
\* version-mismatch error and ValidateMessage returns at once with a nil
\* error: no GetSchema call, no action, payload or error-code check.
C18_OldVersionReturnsAtOnce ==
    ValidatedUnderOldVersion
    => /\ validatorReturn.err = "nil"
       /\ validatorReturn.calls = <<>>
       /\ ~ValidationIsValid(validatorReturn.result)
       /\ ReturnedErrors
            = (IF GetUniqueId(Validated) = "" THEN <<uniqueIdEmptyErr>> ELSE <<>>)
                \o <<IF Validated.typeId = SEND
                     THEN "SEND messages are only supported in OCPP 2.1"
                     ELSE "CALL_RESULT_ERROR messages are only supported in OCPP 2.1">>

\* a SEND without action and payload under 1.6: only the mismatch is recorded
C18_Witness ==
    /\ ValidatedUnderOldVersion
    /\ Validated.typeId = SEND
    /\ GetAction(Validated) = ""
    /\ GetPayload(Validated) = JNull
    /\ ReturnedErrors = <<"SEND messages are only supported in OCPP 2.1">>

\* ------------------------------------------------------------------------
\* Properties of Reset and of the statistics
\* ------------------------------------------------------------------------
\* the contents of an empty report
EmptyContents == [InvalidMessages |-> EmptyMap, NonParsableMessages |-> EmptyMap]

\* C21: after Reset the results map and the non-parsable map are empty, the
\* counters are zero and no report is memoized, as in a new aggregator, and
\* a CreateReport on an aggregator whose maps are empty returns an empty
\* report and leaves the counters as they were, whatever was reported before.
C21_ResetGivesNewAggregator ==
    [][/\ ResetCall =>
            /\ aggregatorResults' = EmptyMap
            /\ stringListMaps'[nonParsableMessages'] = EmptyMap
            /\ nonParsableMessages' \notin
                    {report.NonParsableMessages, returnedReport.value.NonParsableMessages}
            /\ stats' = ZeroStatistics
            /\ reportGenerated' = FALSE
       /\ (/\ CreateReportCall
           /\ aggregatorResults = EmptyMap
           /\ stringListMaps[nonParsableMessages] = EmptyMap) =>
            /\ returnedReport'.value.InvalidMessages = EmptyMap
            /\ stringListMaps'[returnedReport'.value.NonParsableMessages] = EmptyMap
            /\ stats' = stats]_vars

\* a report with an invalid message and a non-parsable entry was generated
\* and Reset was called after it
C21_Witness ==
    /\ resets >= 1
    /\ ~reportGenerated
    /\ report.InvalidMessages # EmptyMap
    /\ stringListMaps[report.NonParsableMessages] # EmptyMap
    /\ aggregatorResults = EmptyMap
    /\ stringListMaps[nonParsableMessages] = EmptyMap
    /\ stats = ZeroStatistics

\* the counters of the Statistics value in use, added up as integers
SumOfCounters ==
    statistics.InvalidRequests + statistics.InvalidResponses
        + statistics.ValidRequests + statistics.ValidResponses

\* the denominator a percentage helper divides by
Denominator(method) ==
    CASE method \in {"ValidRequestPercentage", "InvalidRequestPercentage"} ->
            GetTotalRequest(statistics)
      [] method \in {"ValidResponsePercentage", "InvalidResponsePercentage"} ->
            GetTotalResponses(statistics)
      [] OTHER -> GetTotal(statistics)

\* C22: for a Statistics value with non-negative counters GetTotal() is
\* InvalidRequests+InvalidResponses+ValidRequests+ValidResponses, without
\* UnparsableMessages (the sum as an int: equal to the integer sum whenever
\* that fits an int), and each of the six percentage helpers returns exactly
\* 0 when its denominator is 0.
C22_TotalAndZeroDenominator ==
    /\ statisticsMethod = "GetTotal" =>
            /\ statisticsResult = IntResult(WrapInt(SumOfCounters))
            /\ SumOfCounters <= MaxInt => statisticsResult.num = SumOfCounters
    /\ (statisticsMethod \in PercentageMethods /\ Denominator(statisticsMethod) = 0) =>
            statisticsResult = FloatZero

\* a percentage helper was called on a value whose denominator is 0 while
\* UnparsableMessages is not
C22_Witness ==
    /\ statisticsMethod = "TotalInvalidMessagesPercentage"
    /\ SumOfCounters = 0
    /\ statistics.UnparsableMessages = 1
    /\ statisticsResult = FloatZero

\* ------------------------------------------------------------------------
\* Structural failures of known-type lines
\* ------------------------------------------------------------------------
\* the exchange key of a line that passed the shape checks
KeyOf(line, index) == IF line.arr[2].s = "" THEN LineKey(index) ELSE line.arr[2].s

\* the diagnostic parse attaches to a type-2 or type-4 line with a
\* structural failure; "" when the line has none
StructuralDiagnostic(line) ==
    CASE IsTyped(line, CALL) /\ Len(line.arr) # 4 ->
            "Expected 4 elements in the message, got " \o FmtInt(Len(line.arr))
      [] IsTyped(line, CALL) /\ Len(line.arr) = 4 /\ line.arr[3].t # "str" ->
            "Expected third element to be a string (action)"
      [] IsTyped(line, CALL_ERROR) /\ Len(line.arr) < 4 ->
            "Invalid Call Error message. Expected array length >= 4, got "
                \o FmtInt(Len(line.arr))
      [] IsTyped(line, CALL_ERROR) /\ Len(line.arr) >= 4 /\ line.arr[3].t # "str" ->
            "Invalid element " \o FmtValue(line.arr[3]) \o " at 2, expected error code (string)"
      [] OTHER -> ""

\* C23: after a type-2 line whose length is not 4 or whose action is not a
\* string, the exchange entry of its id exists and its Request slot is
\* invalid and contains the diagnostic; after a type-4 line with fewer than
\* 4 elements or a non-string error code, the same holds of the Response
\* slot.
C23_StructuralFailureIsVisible ==
    [][(DecodedLine /\ StructuralDiagnostic(LastLine) # "")
        => LET key == KeyOf(LastLine, Len(data'))
           IN  /\ key \in DOMAIN results'
               /\ LET slot == SlotOf(results'[key], MessageType(LastLine.arr[1].n))
                  IN  /\ ~IsValid(slot)
                      /\ Contains(Errors(slot), StructuralDiagnostic(LastLine))
      ]_vars

\* the part of C23 that holds of the code: the exchange entry exists after
\* the line, and a non-string error code of a type-4 line with at least 4
\* elements is recorded in the Response slot
C23_EntryExistsAndBadCodeIsVisible ==
    [][(DecodedLine /\ StructuralDiagnostic(LastLine) # "")
        => LET key == KeyOf(LastLine, Len(data'))
           IN  /\ key \in DOMAIN results'
               /\ (IsTyped(LastLine, CALL_ERROR) /\ Len(LastLine.arr) >= 4) =>
                      /\ ~IsValid(results'[key].Response)
                      /\ Contains(Errors(results'[key].Response),
                                  StructuralDiagnostic(LastLine))
      ]_vars

\* ------------------------------------------------------------------------
\* Responses without an action
\* ------------------------------------------------------------------------
\* the last call was on a type-3 message with an empty action
ValidatedResponseWithoutAction ==
    /\ validatorCall.called
    /\ Validated.typeId = CALL_RESULT
    /\ GetAction(Validated) = ""

\* C24: for a type-3 message with an empty action ValidateMessage records
\* actionEmptyErr, calls GetSchema not at all, and returns a nil error.
C24_ResponseWithoutActionSkipsLookup ==
    ValidatedResponseWithoutAction
    => /\ Contains(ReturnedErrors, actionEmptyErr)
       /\ validatorReturn.calls = <<>>
       /\ validatorReturn.err = "nil"

\* the part of C24 that holds of the code: actionEmptyErr is recorded, and
\* with a nil payload there is no GetSchema call and the error is nil
C24_ResponseWithoutActionRecordsError ==
    ValidatedResponseWithoutAction
    => /\ Contains(ReturnedErrors, actionEmptyErr)
       /\ GetPayload(Validated) = JNull =>
              /\ validatorReturn.calls = <<>>
              /\ validatorReturn.err = "nil"

\* ------------------------------------------------------------------------
\* Running statistics
\* ------------------------------------------------------------------------
\* the counters of the slots accumulated in a.results, each slot counted once
SlotCounts ==
    [ValidRequests |-> Cardinality(SlotsOfKind(TRUE, TRUE)),
     ValidResponses |-> Cardinality(SlotsOfKind(FALSE, TRUE)),
     InvalidRequests |-> Cardinality(SlotsOfKind(TRUE, FALSE)),
     InvalidResponses |-> Cardinality(SlotsOfKind(FALSE, FALSE))]

\* the request and response counters of a Statistics value
SlotCounters(st) ==
    [ValidRequests |-> st.ValidRequests, ValidResponses |-> st.ValidResponses,
     InvalidRequests |-> st.InvalidRequests, InvalidResponses |-> st.InvalidResponses]

\* C25: while no report has been generated, a GetStatistics call returns
\* counters equal to the number of accumulated request and response slots in
\* each validity class, so that calls with no Add* call in between return
\* equal values.
C25_RunningStatisticsCountSlotsOnce ==
    [][(GetStatisticsCall /\ ~reportGenerated)
        => SlotCounters(returnedStatistics') = SlotCounts]_vars

\* the part of C25 that holds of the code: the first GetStatistics call on a
\* new or reset aggregator returns the slot counts; each call adds the slot
\* counts to the counters the aggregator holds
C25_RunningStatisticsAddUp ==
    [][(GetStatisticsCall /\ ~reportGenerated)
        => /\ SlotCounters(stats) = SlotCounters(ZeroStatistics)
                => SlotCounters(returnedStatistics') = SlotCounts
           /\ \A f \in DOMAIN SlotCounts :
                returnedStatistics'[f] = stats[f] + SlotCounts[f]]_vars

\* the ids of a.results that hold a request (or a response) slot
IdsHolding(key) == {sl[1] : sl \in {x \in Slots(aggregatorResults) : x[2] = key}}

\* a call of one of the three Add* methods
AddCall ==
    \/ \E messageId \in MessageIds, isRequest \in BOOLEAN, v \in ValidationResults :
            AddValidationResultsCall(messageId, isRequest, v)
    \/ \E messageId \in MessageIds, isRequest \in BOOLEAN, r \in ParserResults :
            AddParserResultCall(messageId, isRequest, r)
    \/ \E messageId \in MessageIds, r \in NonParsableResults :
            AddNonParsableMessageCall(messageId, r)

\* C26: the counters CreateReport freezes count every request and response
\* slot present at that call exactly once, however many GetStatistics calls
\* preceded it, and GetStatistics returns these counters afterwards, whatever
\* Add* calls follow the report.
C26_FrozenStatisticsCountSlotsOnce ==
    [][/\ CreateReportBuilds =>
            /\ stats'.ValidRequests + stats'.InvalidRequests
                    = Cardinality(IdsHolding(requestKey))
            /\ stats'.ValidResponses + stats'.InvalidResponses
                    = Cardinality(IdsHolding(responseKey))
       /\ (reportGenerated /\ (GetStatisticsCall \/ AddCall)) => stats' = stats
       /\ (reportGenerated /\ GetStatisticsCall) => returnedStatistics' = stats]_vars

\* the part of C26 that holds of the code: the counters are frozen once the
\* report exists, and they count every slot once when no GetStatistics call
\* came before the report
C26_FrozenStatisticsWithoutEarlierCalls ==
    [][/\ (CreateReportBuilds /\ SlotCounters(stats) = SlotCounters(ZeroStatistics)) =>
            /\ stats'.ValidRequests + stats'.InvalidRequests
                    = Cardinality(IdsHolding(requestKey))
            /\ stats'.ValidResponses + stats'.InvalidResponses
                    = Cardinality(IdsHolding(responseKey))
       /\ (reportGenerated /\ (GetStatisticsCall \/ AddCall)) => stats' = stats
       /\ (reportGenerated /\ GetStatisticsCall) => returnedStatistics' = stats]_vars

\* the entries of the non-parsable map the aggregator holds
NonParsableEntries == DOMAIN stringListMaps[nonParsableMessages]

\* C29: the statistics returned by GetStatistics and the counters frozen by
\* CreateReport have UnparsableMessages equal to the number of entries of the
\* non-parsable map, that is, of the distinct non-empty ids passed to
\* AddNonParsableMessage since construction or the last Reset.
C29_UnparsableMessagesCounted ==
    [][/\ GetStatisticsCall =>
            returnedStatistics'.UnparsableMessages = Cardinality(NonParsableEntries)
       /\ CreateReportBuilds =>
            stats'.UnparsableMessages = Cardinality(NonParsableEntries)]_vars

\* what holds of the code: UnparsableMessages is 0 in every Statistics value
\* the aggregator holds or returns
C29_UnparsableMessagesStaysZero ==
    /\ stats.UnparsableMessages = 0
    /\ returnedStatistics.UnparsableMessages = 0

\* ------------------------------------------------------------------------
\* Properties of the Service
\* ------------------------------------------------------------------------
\* the last run, made on a new Service instead
FreshRun ==
    parseAndValidate(NewService, schemasPerOcppVersion, serviceCall.version,
                     serviceCall.messages, serviceCall.idOrder, serviceCall.flip)

\* the contents of the report a run on a new Service returns
FreshContents ==
    [InvalidMessages |-> FreshRun.report.InvalidMessages,
     NonParsableMessages |->
        FreshRun.service.aggregator.maps[FreshRun.report.NonParsableMessages]]

\* C27: every validation run on a Service returns what the same run on a new
\* Service returns: the same error, and a report whose InvalidMessages and
\* NonParsableMessages come from the lines of this run only, whatever earlier
\* runs on the Service parsed, reported or aborted on.
C27_RunReflectsOnlyItsLines ==
    serviceRuns >= 1 =>
        /\ serviceErr = FreshRun.err
        /\ serviceErr = "nil" =>
              /\ returnedReport.returned
              /\ Contents(returnedReport.value) = FreshContents

\* the exchanges the lines of the last run decode to on a new parser
FreshParse == Parse(NewParserV2, 1, serviceCall.messages, "").results

\* the request of exchange id parsed without errors and passes validation
\* against its schema
RequestIsSound(id) ==
    /\ GetRequest(FreshParse[id]).found
    /\ IsValid(FreshParse[id].Request)
    /\ LET v == ValidateMessage(schemasPerOcppVersion, serviceCall.version,
                                GetRequest(FreshParse[id]).message, serviceCall.flip)
       IN  v.err = "nil" /\ ValidationIsValid(v.result)

\* the response of exchange id parsed without errors and passes validation
ResponseIsSound(id) ==
    /\ GetResponse(FreshParse[id]).found
    /\ IsValid(FreshParse[id].Response)
    /\ LET v == ValidateMessage(schemasPerOcppVersion, serviceCall.version,
                                GetResponse(FreshParse[id]).message, serviceCall.flip)
       IN  v.err = "nil" /\ ValidationIsValid(v.result)

\* the report of the last run lists the slot as invalid
ListedInvalid(id, key) ==
    /\ id \in DOMAIN returnedReport.value.InvalidMessages
    /\ key \in DOMAIN returnedReport.value.InvalidMessages[id]

\* C30: in the first run on a Service that returns a report, a request that
\* parsed without errors and satisfies its schema is not listed under
\* InvalidMessages and is counted as a valid request, also when the response
\* with its id carries a parse error; the same for a sound response whose
\* request carries a parse error.
C30_ValidityIsPerMessage ==
    (serviceRuns = 1 /\ serviceErr = "nil") =>
        /\ \A id \in DOMAIN FreshParse :
              /\ RequestIsSound(id) => ~ListedInvalid(id, requestKey)
              /\ ResponseIsSound(id) => ~ListedInvalid(id, responseKey)
        /\ stats.ValidRequests = Cardinality({id \in DOMAIN FreshParse : RequestIsSound(id)})
        /\ stats.ValidResponses = Cardinality({id \in DOMAIN FreshParse : ResponseIsSound(id)})

\* the part of C30 that holds of the code: the same, for the exchanges whose
\* request and response slots both parsed without errors
C30_ValidityOfSoundExchanges ==
    (serviceRuns = 1 /\ serviceErr = "nil") =>
        \A id \in DOMAIN FreshParse :
            RequestResponseIsValid(FreshParse[id]) =>
                /\ RequestIsSound(id) => ~ListedInvalid(id, requestKey)
                /\ ResponseIsSound(id) => ~ListedInvalid(id, responseKey)

\* ------------------------------------------------------------------------
\* Properties of the single-message decoder
\* ------------------------------------------------------------------------
\* the argument of the last call is a JSON array of at least 3 elements
ParsedArray == parsedLine.kind = "array" /\ Len(parsedLine.arr) >= 3

\* a well-formed response: [3, id, payload], exactly 3 elements
ParsedWellFormedResponse ==
    /\ parsedLine.kind = "array"
    /\ Len(parsedLine.arr) = 3
    /\ parsedLine.arr[1].t = "num"
    /\ MessageType(parsedLine.arr[1].n) = CALL_RESULT
    /\ parsedLine.arr[2].t = "str"

\* C28: ParseMessage never panics; for a well-formed response [3, id,
\* payload] it returns the CallResult whose payload is the third element, a
\* valid Result and a nil error; for an array whose type id is not a number
\* or whose id is not a string it returns with the diagnostic recorded.
C28_ParseMessageNeverPanics ==
    /\ ~parsedReturn.panicked
    /\ ParsedWellFormedResponse =>
          /\ parsedReturn.message
                = CallResult(parsedLine.arr[2].s, "", parsedLine.arr[3])
          /\ IsValid(parsedReturn.result)
          /\ parsedReturn.err = "nil"
    /\ (ParsedArray /\ parsedLine.arr[1].t # "num") =>
          Contains(Errors(parsedReturn.result),
                   "Expected first element to be a number (message type ID)")
    /\ (ParsedArray /\ parsedLine.arr[2].t # "str") =>
          Contains(Errors(parsedReturn.result),
                   "Expected second element to be a string (unique ID)")

\* the part of C28 that holds of the code: the only inputs that panic are
\* the arrays of exactly 3 elements with type id 3, and the diagnostics of a
\* non-numeric type id and of a non-string id are recorded whenever the call
\* returns
C28_PanicsOnlyOnShortResponse ==
    /\ parsedReturn.panicked <=>
          /\ parsedLine.kind = "array"
          /\ Len(parsedLine.arr) = 3
          /\ parsedLine.arr[1].t = "num"
          /\ MessageType(parsedLine.arr[1].n) = CALL_RESULT
    /\ (~parsedReturn.panicked /\ ParsedArray /\ parsedLine.arr[1].t # "num") =>
          Contains(Errors(parsedReturn.result),
                   "Expected first element to be a number (message type ID)")
    /\ (~parsedReturn.panicked /\ ParsedArray /\ parsedLine.arr[2].t # "str") =>
          Contains(Errors(parsedReturn.result),
                   "Expected second element to be a string (unique ID)")

====
